---- MODULE Spec2Model ----
(***************************************************************************)
(* Model of the task-line engine of obsidian-pomodoro-timer: the session   *)
(* count rewriter (TaskTracker.incrTaskActual), the active-task tracker    *)
(* (TaskTracker), the task collection resolver (Tasks / resolveTasks) and  *)
(* the identity helpers of Tasks.                                          *)
(*                                                                         *)
(* Text is modelled at token granularity.  A line is a sequence of tokens  *)
(* that are separated by one blank in the document:                        *)
(*   box     the list-item prefix "- [s]"                                  *)
(*   word    one word of free text                                         *)
(*   ctr     a session counter in one of three spellings                   *)
(*             dc   "[T:: n]" / "[T:: n/m]"   (T is the tomato sentinel)   *)
(*             sc   "[T: n]"  / "[T: n/m]"                                 *)
(*             bare "T n"     / "T n/m"                                    *)
(*   date    a date sentinel followed by an ISO date                       *)
(*   tag     "#tag"                                                        *)
(*   anchor  "^id" (a block anchor when it is the last token of the line)  *)
(*   fence   the opening line of a task query block                        *)
(*   field   "[T:: text]", a bracket field whose value is not a number     *)
(*   glued   "^id" written right after the last word, without a blank      *)
(* A short string that holds a block anchor (TaskItem.blockLink, the       *)
(* argument of incrTaskActual) is a record [pre, id]: the characters in    *)
(* front of the identifier (blanks and carets) and the identifier.         *)
(***************************************************************************)
EXTENDS Integers, Sequences, FiniteSets, Bags, TLC

VARIABLES
    rw,        \* rewriter harness: input, implementation and results so far
    rs,        \* resolver harness: document, external records, published list
    doc,       \* text of the tracked document (sequence of lines)
    tracker,   \* TaskTrackerState: task, pinned
    list,      \* TaskStore.list, the published task list
    events,    \* 'changed' notifications not yet delivered (content snapshots)
    ops,       \* bag of asynchronous operations in flight
    hist       \* build and settings of the run; history: sessions, anchors appended

vars == <<rw, rs, doc, tracker, list, events, ops, hist>>

----------------------------------------------------------------------------
(* Bounds *)

MaxCount == 1      \* largest counter value written in an input line
MaxApply == 2      \* session increments applied in a row by the rewriter harness

NoExp == 0 - 1     \* "no /m suffix" (also: no line, no number)

----------------------------------------------------------------------------
(* Tokens and lines *)

Tok(k, s, n, m, id) == [k |-> k, s |-> s, n |-> n, m |-> m, id |-> id]

Box(status) == Tok("box", status, 0, NoExp, <<>>)
Word(w)     == Tok("word", w, 0, NoExp, <<>>)
Ctr(sp, n, m) == Tok("ctr", sp, n, m, <<>>)
Date(e)     == Tok("date", e, 0, NoExp, <<>>)
Tag(t)      == Tok("tag", t, 0, NoExp, <<>>)
Anchor(id)  == Tok("anchor", "", 0, NoExp, id)
Field(v)    == Tok("field", v, 0, NoExp, <<>>)

Spellings == {"dc", "sc", "bare"}

IdA  == <<"a", "1">>
IdAx == <<"a", "1", "2">>      \* has IdA as a proper prefix
IdB  == <<"b", "2">>
IdC  == <<"c", "3">>           \* on no line of any input document

IsPrefix(p, s) == Len(p) <= Len(s) /\ SubSeq(s, 1, Len(p)) = p

\* Sequence helpers.
InsertAt(seq, j, x) == SubSeq(seq, 1, j - 1) \o <<x>> \o SubSeq(seq, j, Len(seq))

FirstIdx(seq, P(_)) ==
    IF \E j \in 1..Len(seq) : P(seq[j])
    THEN CHOOSE j \in 1..Len(seq) : P(seq[j]) /\ \A i \in 1..(j - 1) : ~P(seq[i])
    ELSE 0

CountIf(seq, P(_)) == Cardinality({j \in 1..Len(seq) : P(seq[j])})

IsCtr(t) == t.k = "ctr"

----------------------------------------------------------------------------
(* Anchor strings *)

Str(pre, id) == [pre |-> pre, id |-> id]
EmptyStr     == Str(<<>>, <<>>)
SpCaret(id)  == Str(<<" ", "^">>, id)     \* " ^id"
Caret(id)    == Str(<<"^">>, id)          \* "^id"
Plain(id)    == Str(<<>>, id)             \* "id"

\* s.replace(/^\^/, ''): drops one caret, only when it is the first character.
StripCaret(a) ==
    IF a.pre # <<>> /\ a.pre[1] = "^" THEN Str(Tail(a.pre), a.id) ELSE a

\* s.trim(): drops the leading blanks (a modelled string has no trailing blank).
RECURSIVE Trim(_)
Trim(a) ==
    IF a.pre # <<>> /\ a.pre[1] = " " THEN Trim(Str(Tail(a.pre), a.id)) ELSE a

----------------------------------------------------------------------------
(* utils.extractTaskComponents: not among the sources; modelled from spec  *)
(* section 4.1 and from its callers (createBlockId appends " ^id", and     *)
(* incrTaskActual trims the reported anchor and inserts " [T:: 1]" with a  *)
(* leading blank at its position): the reported anchor is the last token   *)
(* of the line with the blank in front of it.                              *)

NoComponents == [ok |-> FALSE, status |-> "", body |-> <<>>, blockLink |-> EmptyStr]

extractTaskComponents(line) ==
    IF line = <<>> \/ line[1].k # "box"
    THEN NoComponents
    ELSE IF Len(line) > 1 /\ line[Len(line)].k = "anchor"
         THEN [ok |-> TRUE, status |-> line[1].s,
               body |-> SubSeq(line, 2, Len(line) - 1),
               blockLink |-> SpCaret(line[Len(line)].id)]
         ELSE [ok |-> TRUE, status |-> line[1].s,
               body |-> SubSeq(line, 2, Len(line)),
               blockLink |-> EmptyStr]

\* The structural indexer (metadataCache): one list item per line that starts
\* with a list-item prefix, flagged as a task, with its 0-based line number.
RECURSIVE IndexFrom(_, _)
IndexFrom(lines, i) ==
    IF i > Len(lines) THEN <<>>
    ELSE (IF lines[i] # <<>> /\ lines[i][1].k = "box"
          THEN <<[line |-> i - 1, task |-> TRUE]>> ELSE <<>>)
         \o IndexFrom(lines, i + 1)

IndexOf(lines) == IndexFrom(lines, 1)

----------------------------------------------------------------------------
(* TaskTracker.incrTaskActual, src/src/TaskTracker.ts *)

\* line 233: blockLink.replace(/^\^/, '').trim()
NormSearchTT(blockLink) == Trim(StripCaret(blockLink))

\* line 257: components.blockLink.trim().replace(/^\^/, '')
NormComponentTT(blockLink) == StripCaret(Trim(blockLink))

IsDc(t) == t.k = "ctr" /\ t.s = "dc"

\* line 272: includes('[T::'), true of a counter and of any other field of
\* that key.
HasDcPrefix(t) == IsDc(t) \/ t.k = "field"

\* line.indexOf(components.blockLink): the first place where " ^id" occurs,
\* which is the first caret token whose identifier starts with id.
BlockPos(line, blockLink) ==
    LET Hit(t) == t.k = "anchor" /\ IsPrefix(blockLink.id, t.id)
    IN  FirstIdx(line, Hit)

\* lines 271-337: the new text of the matched line.
RewriteLineTT(line, components) ==
    IF \E j \in 1..Len(components.body) : HasDcPrefix(components.body[j])
    THEN LET startPos == FirstIdx(line, HasDcPrefix)
         IN  IF IsDc(line[startPos])                      \* countMatch (line 288)
             THEN [line EXCEPT ![startPos].n = @ + 1]
             ELSE line
    ELSE IF components.blockLink # EmptyStr
         THEN LET blockPos == BlockPos(line, components.blockLink)
              IN  IF blockPos # 0
                  THEN InsertAt(line, blockPos, Ctr("dc", 1, NoExp))
                  ELSE Append(line, Ctr("dc", 1, NoExp))
         ELSE Append(line, Ctr("dc", 1, NoExp))

Outcome(o, lines, lineNr) == [outcome |-> o, lines |-> lines, lineNr |-> lineNr]

\* "!content": the empty string, which split('\n') turns into one empty line.
IsEmptyContent(content) == content = <<>> \/ content = << <<>> >>

\* line 344 (part_002 line 322): lines[lineNr] = line, with a 0-based lineNr.
WriteLineOffByOne(lines, lineNr, newLine) ==
    IF lineNr + 2 <= Len(lines)
    THEN [lines EXCEPT ![lineNr + 2] = newLine]
    ELSE Append(lines, newLine)

WriteLine(lines, lineNr, newLine) == [lines EXCEPT ![lineNr + 1] = newLine]

\* lines 240-352: the scan over metadata.listItems, up to the first match.
\* outcome: "written" (vault.modify is called with lines), "unchanged" (match,
\* same line: foundMatch reset), "notfound", "threw" (a list item past the
\* last line: lines[lineNr] is undefined).
RECURSIVE ScanTT(_, _, _, _)
ScanTT(lines, listItems, blockLink, i) ==
    IF i > Len(listItems) THEN Outcome("notfound", lines, NoExp)
    ELSE IF ~listItems[i].task THEN ScanTT(lines, listItems, blockLink, i + 1)
    ELSE LET lineNr == listItems[i].line
         IN  IF lineNr >= Len(lines) THEN Outcome("threw", lines, lineNr)
             ELSE LET line == lines[lineNr + 1]
                      components == extractTaskComponents(line)
                  IN  IF ~components.ok
                      THEN ScanTT(lines, listItems, blockLink, i + 1)
                      ELSE IF NormComponentTT(components.blockLink) = NormSearchTT(blockLink)
                      THEN LET newLine == RewriteLineTT(line, components)
                           IN  IF newLine # line
                               THEN Outcome("written", WriteLine(lines, lineNr, newLine), lineNr)
                               ELSE Outcome("unchanged", lines, lineNr)
                      ELSE ScanTT(lines, listItems, blockLink, i + 1)

\* lines 216-357, from the text read to the text handed to vault.modify.
incrTaskActualTT(content, listItems, blockLink) ==
    IF IsEmptyContent(content) THEN Outcome("notfound", content, NoExp)
    ELSE ScanTT(content, listItems, blockLink, 1)

----------------------------------------------------------------------------
(* TaskTracker.incrTaskActual, src/unnamed/part_002 *)

\* line 232 and line 259: replace(/^\^/, '').trim() on both sides.
NormP2(blockLink) == Trim(StripCaret(blockLink))

\* line 245: line.includes(`^${normalizedSearchBlockLink}`).  A caret occurs
\* in a line only in front of an identifier.
LineIncludesCaret(line, norm) ==
    /\ norm.pre = <<>>
    /\ \E j \in 1..Len(line) : line[j].k = "anchor" /\ IsPrefix(norm.id, line[j].id)

\* lines 273-278: the three patterns, none of which accepts a bracketed "n/m".
MatchesPattern(p, t) ==
    /\ t.k = "ctr"
    /\ \/ p = 1 /\ t.s = "dc" /\ t.m = NoExp
       \/ p = 2 /\ t.s = "bare"
       \/ p = 3 /\ t.s = "sc" /\ t.m = NoExp

FirstPattern(line) ==
    IF \E p \in 1..3 : \E j \in 1..Len(line) : MatchesPattern(p, line[j])
    THEN CHOOSE p \in 1..3 :
            /\ \E j \in 1..Len(line) : MatchesPattern(p, line[j])
            /\ \A q \in 1..(p - 1) : \A j \in 1..Len(line) : ~MatchesPattern(q, line[j])
    ELSE 0

\* line 305: the metadata the new counter is inserted in front of.
IsMetadataP2(t) ==
    \/ t.k = "date" /\ t.s \in {"created", "due", "scheduled", "done"}
    \/ t.k = "tag"
    \/ t.k = "anchor"

\* lines 280-318
RewriteLineP2(line) ==
    LET p == FirstPattern(line)
    IN  IF p # 0
        THEN LET Hit(t) == MatchesPattern(p, t)
                 j == FirstIdx(line, Hit)
             IN  [line EXCEPT ![j].n = @ + 1]
        ELSE LET at == FirstIdx(line, IsMetadataP2)
             IN  IF at # 0
                 THEN InsertAt(line, at, Ctr("dc", 1, NoExp))
                 ELSE Append(line, Ctr("dc", 1, NoExp))

\* lines 239-267: the search.  0-based line number of the hit, NoExp for none,
\* Len(lines) or more for a list item past the last line.
RECURSIVE FindP2(_, _, _, _)
FindP2(lines, listItems, norm, i) ==
    IF i > Len(listItems) THEN NoExp
    ELSE IF ~listItems[i].task THEN FindP2(lines, listItems, norm, i + 1)
    ELSE LET lineNr == listItems[i].line
         IN  IF lineNr >= Len(lines) THEN lineNr
             ELSE LET line == lines[lineNr + 1]
                      components == extractTaskComponents(line)
                      componentBlockId == NormP2(components.blockLink)
                  IN  IF LineIncludesCaret(line, norm) THEN lineNr
                      ELSE IF ~components.ok THEN FindP2(lines, listItems, norm, i + 1)
                      ELSE IF componentBlockId # EmptyStr /\ componentBlockId = norm
                      THEN lineNr
                      ELSE FindP2(lines, listItems, norm, i + 1)

\* lines 215-330
incrTaskActualP2(content, listItems, blockLink) ==
    IF IsEmptyContent(content) THEN Outcome("notfound", content, NoExp)
    ELSE LET lineToUpdate == FindP2(content, listItems, NormP2(blockLink), 1)
         IN  IF lineToUpdate = NoExp THEN Outcome("notfound", content, NoExp)
             ELSE IF lineToUpdate >= Len(content) THEN Outcome("threw", content, lineToUpdate)
             ELSE LET originalLine == content[lineToUpdate + 1]
                      updatedLine == RewriteLineP2(originalLine)
                  IN  IF updatedLine # originalLine
                      THEN Outcome("written",
                                   WriteLine(content, lineToUpdate, updatedLine),
                                   lineToUpdate)
                      ELSE Outcome("unchanged", content, lineToUpdate)

----------------------------------------------------------------------------
(* Task records (TaskItem) *)

NoTask == [none |-> TRUE]

Item(path, lineNr, text, name, description, blockLink, actual, expected, source) ==
    [path |-> path, line |-> lineNr, text |-> text, name |-> name,
     description |-> description, blockLink |-> blockLink,
     actual |-> actual, expected |-> expected, source |-> source]

\* serializer.DESERIALIZERS[format].deserialize: not among the sources;
\* modelled from spec section 4.2.  The recognized markers are the dates, the
\* tags and the bracket field "[T:: n/m]"; what is left is the description.
IsRecognizedMarker(t) == t.k \in {"date", "tag"} \/ IsDc(t)

Keep(seq, P(_)) == SelectSeq(seq, P)

RemoveAt(seq, j) ==
    IF j = 0 THEN seq ELSE SubSeq(seq, 1, j - 1) \o SubSeq(seq, j + 1, Len(seq))

deserialize(body) ==
    LET NotMarker(t) == ~IsRecognizedMarker(t)
        c == FirstIdx(body, IsDc)
    IN  [description |-> Keep(body, NotMarker),
         actual   |-> IF c = 0 THEN 0 ELSE body[c].n,
         expected |-> IF c = 0 \/ body[c].m = NoExp THEN 0 ELSE body[c].m]

----------------------------------------------------------------------------
(* Tasks.convertToTaskItem, src/src/Tasks.ts 1390-1437 (the same as 697-744) *)

IsAnchor(t) == t.k = "anchor"
IsDcPlain(t) == IsDc(t) /\ t.m = NoExp

\* text is the task text handed over by the query engine: the line without
\* its list-item prefix.
convertToTaskItem(text, path, lineNr) ==
    LET p == FirstIdx(text, IsDcPlain)          \* /\[T::\s*(\d+)\]/
        pomodoroCount == IF p = 0 THEN 0 ELSE text[p].n
        \* /\s\^([\w\d-]+)(?:\s|$)/ needs a blank in front of the caret
        b == FirstIdx([j \in 1..Len(text) |-> IF j = 1 THEN Word("") ELSE text[j]], IsAnchor)
        blockId == IF b = 0 THEN <<>> ELSE text[b].id
        noAnchor == RemoveAt(text, FirstIdx(text, IsAnchor))
        displayText == RemoveAt(noAnchor, FirstIdx(noAnchor, IsDc))
    IN  Item(path, lineNr, text, displayText, displayText,
             IF blockId # <<>> THEN Caret(blockId) ELSE EmptyStr,
             pomodoroCount, pomodoroCount, "query")

----------------------------------------------------------------------------
(* Identity helpers of Tasks, src/src/Tasks.ts 1180-1274 *)

\* lines 1180-1183
normalizeBlockId(blockId) == Trim(StripCaret(blockId))

\* lines 1188-1199: what the replace() chain leaves of a description.  Only
\* the bracket field "[T:: n]" / "[T:: n/m]" is removed among the counters,
\* and only four of the date sentinels.
StrippedByNormalize(t) ==
    \/ IsDc(t)
    \/ t.k = "date" /\ t.s \in {"created", "due", "scheduled", "done"}
    \/ t.k = "anchor"
    \/ t.k = "tag"

normalizeTaskText(text) ==
    LET Stays(t) == ~StrippedByNormalize(t) IN Keep(text, Stays)

\* lines 1204-1274
updateTaskWithPomodoroCount(task, newCount) ==
    LET p == FirstPattern(task.text)
        updatedText ==
            IF p # 0
            THEN LET Hit(t) == MatchesPattern(p, t)
                     j == FirstIdx(task.text, Hit)
                 IN  [task.text EXCEPT ![j].n = newCount]
            ELSE LET at == FirstIdx(task.text, IsMetadataP2)
                 IN  IF at # 0
                     THEN InsertAt(task.text, at, Ctr("dc", newCount, NoExp))
                     ELSE Append(task.text, Ctr("dc", newCount, NoExp))
        Max(a, b) == IF a >= b THEN a ELSE b
    IN  [task EXCEPT !.text = updatedText, !.actual = newCount,
                     !.expected = Max(task.expected, newCount)]

\* The key findTaskByMultipleIdentifiers (lines 1124-1174) compares at its
\* first applicable level: the normalized anchor, else the normalized
\* description, else path and line.
identityOf(task) ==
    IF task.blockLink # EmptyStr
    THEN <<"anchor", normalizeBlockId(task.blockLink)>>
    ELSE IF normalizeTaskText(task.description) # <<>>
         THEN <<"description", normalizeTaskText(task.description)>>
         ELSE <<"position", task.path, task.line>>

----------------------------------------------------------------------------
(* TaskTracker.sync, src/src/TaskTracker.ts 174-187: the new state.task *)

syncTask(held, task) ==
    IF held # NoTask /\ held.blockLink # EmptyStr /\ held.blockLink = task.blockLink
    THEN [task EXCEPT !.name = held.name]
    ELSE held

----------------------------------------------------------------------------
(* resolveTasks, src/src/Tasks.ts 387-442 *)

\* lines 399-438: the record of one task list item, in range of the text.
resolveItem(path, lines, lineNr) ==
    LET line == lines[lineNr + 1]
        components == extractTaskComponents(line)
        detail == deserialize(components.body)
    IN  Item(path, lineNr, line, detail.description, detail.description,
             components.blockLink, detail.actual, detail.expected, "direct")

\* A list item that points past the last line makes lines[lineNr] undefined.
resolveThrows(lines, listItems) ==
    \E i \in 1..Len(listItems) : listItems[i].task /\ listItems[i].line >= Len(lines)

\* Object.values(cache): one record per line number, in ascending order.
RECURSIVE ResolveFrom(_, _, _, _)
ResolveFrom(path, lines, wanted, lineNr) ==
    IF lineNr >= Len(lines) THEN <<>>
    ELSE (IF lineNr \in wanted /\ extractTaskComponents(lines[lineNr + 1]).ok
          THEN <<resolveItem(path, lines, lineNr)>> ELSE <<>>)
         \o ResolveFrom(path, lines, wanted, lineNr + 1)

resolveTasks(path, content, listItems) ==
    IF IsEmptyContent(content) THEN <<>>
    ELSE ResolveFrom(path, content,
                     {listItems[i].line : i \in {j \in 1..Len(listItems) : listItems[j].task}},
                     0)

----------------------------------------------------------------------------
(* Rewriter harness: the pure functions applied to bounded inputs *)

DocPath == "A.md"

CounterParts ==
    {<<>>, <<Field("soon")>>}
        \cup {<<Ctr(sp, n, m)>> :
                   sp \in Spellings, n \in 0..MaxCount, m \in {NoExp, MaxCount + 2}}

SubjectLines ==
    {<<Box(" "), Word("Write"), Word("report")>> \o c \o d \o t \o a :
        c \in CounterParts,
        d \in {<<>>, <<Date("due")>>},
        t \in {<<>>, <<Tag("work")>>},
        a \in {<<>>, <<Anchor(IdA)>>}}

OtherLines ==
    { <<Word("Notes")>>,
      <<Box(" "), Word("Buy"), Word("milk"), Anchor(IdAx)>>,
      <<Box(" "), Word("Call"), Anchor(IdB)>>,
      <<Box(" "), Word("see"), Anchor(IdA), Word("later")>> }

Targets == {F : F \in {SpCaret(IdA), Caret(IdA), Plain(IdA),
                       SpCaret(IdC), Caret(IdC), Plain(IdC)}}

RwOps == {"incrTT", "incrP2", "incrP3", "sync", "update"}

NoRw == [op |-> "off"]

RwInit ==
    \E op \in RwOps, target \in Targets, subject \in SubjectLines,
       other \in OtherLines, first \in BOOLEAN :
        rw = [op |-> op, target |-> target,
              subj |-> IF first THEN 0 ELSE 1,
              doc0 |-> IF first THEN <<subject, other>> ELSE <<other, subject>>,
              cur  |-> IF first THEN <<subject, other>> ELSE <<other, subject>>,
              outs |-> <<>>]

\* What a call of incrTaskActual sets off after its scan.
\* A scan that keeps foundMatch set although the line did not change.
TriggeredUnguarded(out) ==
    IF out.outcome \in {"written", "unchanged"} THEN {"modify", "plugin reload"} ELSE {}

\* src/src/TaskTracker.ts 355-426: the write and the plugin reload timer.
TriggeredTT(out) ==
    IF out.outcome = "written" THEN {"modify", "plugin reload"} ELSE {}

\* src/unnamed/part_002 320-327: the write.
TriggeredP2(out) ==
    IF out.outcome = "written" THEN {"modify"} ELSE {}

\* src/unnamed/part_003 333-358: the write, the re-index of the file, the
\* task reload and the file-open event.
TriggeredP3(out) ==
    IF out.outcome = "written"
    THEN {"modify", "index.touch", "loadFileTasks", "file-open"} ELSE {}

\* One call of incrTaskActual on the current text, with the structural index
\* of that text; the text handed to vault.modify becomes the current text.
RwApply(out, triggered) ==
    /\ rw' = [rw EXCEPT !.cur = IF "modify" \in triggered THEN out.lines ELSE @,
                        !.outs = Append(@, [outcome |-> out.outcome, lineNr |-> out.lineNr,
                                            lines |-> <<>>, triggered |-> triggered])]
    /\ UNCHANGED <<rs, doc, tracker, list, events, ops, hist>>

IncrementTT ==
    /\ rw.op = "incrTT" /\ Len(rw.outs) < MaxApply
    /\ LET out == incrTaskActualTT(rw.cur, IndexOf(rw.cur), rw.target)
       IN  RwApply(out, TriggeredTT(out))

IncrementP2 ==
    /\ rw.op = "incrP2" /\ Len(rw.outs) < MaxApply
    /\ LET out == incrTaskActualP2(rw.cur, IndexOf(rw.cur), rw.target)
       IN  RwApply(out, TriggeredP2(out))

\* src/unnamed/part_003 216-360: the scan of src/src/TaskTracker.ts with
\* another refresh after the write.
IncrementP3 ==
    /\ rw.op = "incrP3" /\ Len(rw.outs) < MaxApply
    /\ LET out == incrTaskActualTT(rw.cur, IndexOf(rw.cur), rw.target)
       IN  RwApply(out, TriggeredP3(out))

\* The record of the subject line as a pass resolves it: by the direct scan,
\* or converted from the query engine's task.
SubjectRecord(lines, subj, src) ==
    IF src = "direct"
    THEN resolveItem(DocPath, lines, subj)
    ELSE convertToTaskItem(Tail(lines[subj + 1]), DocPath, subj)

\* TaskTracker.sync of a held record whose blockLink is the target with the
\* freshly resolved record of the subject line.
SyncHeld ==
    /\ rw.op = "sync" /\ rw.outs = <<>>
    /\ \E src \in {"direct", "query"} :
        LET fresh == SubjectRecord(rw.cur, rw.subj, src)
            held == [fresh EXCEPT !.blockLink = rw.target, !.name = <<Word("renamed")>>,
                                  !.actual = fresh.actual + 1]
        IN  rw' = [rw EXCEPT !.outs = <<[src |-> src, held |-> held, fresh |-> fresh,
                                          after |-> syncTask(held, fresh)]>>]
    /\ UNCHANGED <<rs, doc, tracker, list, events, ops, hist>>

\* Tasks.updateTaskWithPomodoroCount on the converted record of the subject
\* line, as syncActiveTaskWithTasks calls it (lines 1096-1100).
UpdateCount ==
    /\ rw.op = "update" /\ rw.outs = <<>>
    /\ LET before == SubjectRecord(rw.cur, rw.subj, "query")
           currentCount == before.actual
           updated == updateTaskWithPomodoroCount(before, currentCount + 1)
       IN  rw' = [rw EXCEPT !.outs = <<[before |-> before, updated |-> updated]>>,
                            !.cur = [rw.cur EXCEPT ![rw.subj + 1] =
                                         <<rw.cur[rw.subj + 1][1]>> \o updated.text]]
    /\ UNCHANGED <<rs, doc, tracker, list, events, ops, hist>>

----------------------------------------------------------------------------
(* Tasks.loadQueriedTasks and the merge of Tasks.loadFileTasks *)

OtherPath == "B.md"

Fence == <<Tok("fence", "tasks", 0, NoExp, <<>>)>>     \* a ```tasks query block

HasQueryBlock(content) ==
    \E i \in 1..Len(content) : content[i] # <<>> /\ content[i][1].k = "fence"

\* vault.cachedRead of the file an external task names.
ContentOf(path, docA, docB) == IF path = DocPath THEN docA ELSE docB

\* src/src/Tasks.ts 283-364: the record of one task of the external engine,
\* <<>> when the loop skips it.  blockLink, text and counters are read from
\* the line of the file the task names.
queriedItemV1(task, docA, docB) ==
    LET lines == ContentOf(task.path, docA, docB)
    IN  IF task.checked /\ task.path # DocPath THEN <<>>
        ELSE IF task.path = DocPath THEN <<>>
        ELSE IF task.line >= Len(lines) THEN <<>>
        ELSE IF ~extractTaskComponents(lines[task.line + 1]).ok THEN <<>>
        ELSE <<[resolveItem(task.path, lines, task.line) EXCEPT !.source = "query"]>>

RECURSIVE queriedLoopV1(_, _, _)
queriedLoopV1(allTasks, docA, docB) ==
    IF allTasks = <<>> THEN <<>>
    ELSE queriedItemV1(Head(allTasks), docA, docB) \o queriedLoopV1(Tail(allTasks), docA, docB)

\* src/src/Tasks.ts 191-372
loadQueriedTasksV1(docA, docB, plugin, allTasks) ==
    IF ~plugin THEN <<>>
    ELSE IF ~HasQueryBlock(docA) THEN <<>>
    ELSE queriedLoopV1(allTasks, docA, docB)

\* src/unnamed/part_001 548-554: the duplicate check, against the list the
\* store holds when loadQueriedTasks runs.
isDuplicate(existingTasks, blockLink, filePath, lineNumber) ==
    \E i \in 1..Len(existingTasks) :
        \/ blockLink # EmptyStr /\ existingTasks[i].blockLink = blockLink
        \/ existingTasks[i].line = lineNumber /\ existingTasks[i].path = filePath

\* src/unnamed/part_001 474-603
queriedItemP1(task, docA, docB, existingTasks) ==
    LET lines == ContentOf(task.path, docA, docB)
    IN  IF task.line >= Len(lines) THEN <<>>
        ELSE IF ~extractTaskComponents(lines[task.line + 1]).ok THEN <<>>
        ELSE IF isDuplicate(existingTasks,
                            extractTaskComponents(lines[task.line + 1]).blockLink,
                            task.path, task.line)
        THEN <<>>
        ELSE <<[resolveItem(task.path, lines, task.line) EXCEPT !.source = "query"]>>

RECURSIVE queriedLoopP1(_, _, _, _)
queriedLoopP1(allTasks, docA, docB, existingTasks) ==
    IF allTasks = <<>> THEN <<>>
    ELSE queriedItemP1(Head(allTasks), docA, docB, existingTasks)
         \o queriedLoopP1(Tail(allTasks), docA, docB, existingTasks)

\* src/unnamed/part_001 197-610
loadQueriedTasksP1(docA, docB, plugin, allTasks, existingTasks) ==
    IF ~plugin THEN <<>>
    ELSE IF ~HasQueryBlock(docA) THEN <<>>
    ELSE queriedLoopP1(allTasks, docA, docB, existingTasks)

\* src/src/Tasks.ts 149-178 and 90-122: the list handed to the store.
mergeTasks(tasks, queriedTasks) == tasks \o queriedTasks

----------------------------------------------------------------------------
(* Resolver harness: one tracked document A.md, one other document B.md,   *)
(* the tasks the external engine returns, and the published list.          *)

MaxLoads == 2      \* resolution passes in a row

TrackedLines ==
    { <<Box(" "), Word("Buy"), Word("milk"), Anchor(IdA)>>,
      <<Box(" "), Word("Buy"), Word("milk")>>,
      <<Box(" "), Word("Write"), Word("report"), Ctr("dc", 1, NoExp), Anchor(IdB)>> }

ForeignLines ==
    { <<Box(" "), Word("Pay"), Word("rent"), Ctr("dc", 1, NoExp), Anchor(IdA)>>,
      <<Box(" "), Word("Buy"), Word("milk"), Tag("shop")>>,
      <<Box(" "), Word("Call"), Word("bob"), Anchor(IdC)>> }

ExtTask(path, lineNr, checked) == [path |-> path, line |-> lineNr, checked |-> checked]

EngineResults ==
    { <<>>,
      <<ExtTask(OtherPath, 0, FALSE)>>,
      <<ExtTask(DocPath, 0, FALSE), ExtTask(OtherPath, 0, FALSE)>>,
      <<ExtTask(OtherPath, 0, FALSE), ExtTask(DocPath, 0, FALSE)>>,
      <<ExtTask(OtherPath, 0, TRUE)>> }

\* The list items of the structural index in the opposite order.
ReverseIndex(listItems) ==
    [i \in 1..Len(listItems) |-> listItems[Len(listItems) + 1 - i]]

RsInit ==
    \E impl \in {"v1", "p1"}, include \in BOOLEAN, plugin \in BOOLEAN,
       fence \in BOOLEAN, l1 \in TrackedLines, l2 \in TrackedLines,
       lb \in ForeignLines, ext \in EngineResults, reversed \in BOOLEAN :
        rs = [phase |-> "on", impl |-> impl, include |-> include, plugin |-> plugin,
              docA |-> (IF fence THEN <<Fence>> ELSE <<>>) \o <<l1, l2>>,
              index |-> IF reversed
                        THEN ReverseIndex(IndexOf((IF fence THEN <<Fence>> ELSE <<>>) \o <<l1, l2>>))
                        ELSE IndexOf((IF fence THEN <<Fence>> ELSE <<>>) \o <<l1, l2>>),
              docB |-> <<lb>>, ext |-> ext, store |-> <<>>, loads |-> 0]

\* metadataCache.getFileCache(file): the list items of the tracked document.
RsIndex == IF "index" \in DOMAIN rs THEN rs.index ELSE IndexOf(rs.docA)

RsDirect == resolveTasks(DocPath, rs.docA, RsIndex)

RsPublish(published) ==
    /\ rs' = [rs EXCEPT !.store = published, !.loads = @ + 1]
    /\ UNCHANGED <<rw, doc, tracker, list, events, ops, hist>>

\* Tasks.loadFileTasks, src/src/Tasks.ts 143-186, up to the store update.
LoadFileTasksV1 ==
    /\ rs.impl = "v1" /\ rs.loads < MaxLoads
    /\ RsPublish(IF rs.include
                 THEN mergeTasks(RsDirect,
                                 loadQueriedTasksV1(rs.docA, rs.docB, rs.plugin, rs.ext))
                 ELSE RsDirect)

\* The 'changed' handler, src/src/Tasks.ts 82-141, for the tracked file.
ChangedV1 ==
    /\ rs.impl = "v1" /\ rs.loads < MaxLoads /\ rs.loads > 0
    /\ RsPublish(IF rs.include
                 THEN mergeTasks(RsDirect,
                                 loadQueriedTasksV1(rs.docA, rs.docB, rs.plugin, rs.ext))
                 ELSE RsDirect)

\* Tasks.loadFileTasks, src/unnamed/part_001 143-190.
LoadFileTasksP1 ==
    /\ rs.impl = "p1" /\ rs.loads < MaxLoads
    /\ RsPublish(IF rs.include /\ rs.plugin
                 THEN mergeTasks(RsDirect,
                                 loadQueriedTasksP1(rs.docA, rs.docB, rs.plugin, rs.ext, rs.store))
                 ELSE RsDirect)

\* The 'changed' handler, src/unnamed/part_001 82-141.
ChangedP1 ==
    /\ rs.impl = "p1" /\ rs.loads < MaxLoads /\ rs.loads > 0
    /\ RsPublish(IF rs.include
                 THEN mergeTasks(RsDirect,
                                 loadQueriedTasksP1(rs.docA, rs.docB, rs.plugin, rs.ext, rs.store))
                 ELSE RsDirect)

NoRs == [phase |-> "off"]

machineVars == <<doc, tracker, list, events, ops, hist>>

MachineOff ==
    /\ doc = <<>>
    /\ tracker = [task |-> NoTask, pinned |-> FALSE]
    /\ list = <<>>
    /\ events = <<>>
    /\ ops = EmptyBag
    /\ hist = [build |-> "off"]

SpecRewriteInit == RwInit /\ rs = NoRs /\ MachineOff

SpecRewriteNext ==
    \/ IncrementTT
    \/ IncrementP2
    \/ IncrementP3
    \/ SyncHeld
    \/ UpdateCount

SpecRewrite == SpecRewriteInit /\ [][SpecRewriteNext]_vars

----------------------------------------------------------------------------
(* Properties of the rewriter *)

Incremented == rw.op \in {"incrTT", "incrP2"} /\ Len(rw.outs) >= 1

\* The line the first increment located, before and after that increment.
LocatedNr == rw.outs[1].lineNr
Located == Incremented /\ rw.outs[1].outcome \in {"written", "unchanged"}
LineBefore == rw.doc0[LocatedNr + 1]
LineNow    == rw.cur[LocatedNr + 1]

\* C3: a located line with one counter, in any of the three spellings and
\* with or without /m, reads after one increment as before with n replaced
\* by n+1: same spelling, same suffix, no second counter, the rest untouched.
C3_IncrementKeepsSpelling ==
    (Located /\ Len(rw.outs) = 1 /\ CountIf(LineBefore, IsCtr) = 1)
        => LET j == FirstIdx(LineBefore, IsCtr)
           IN  LineNow = [LineBefore EXCEPT ![j].n = @ + 1]

\* C4: two increments in a row raise the counter of the line by 2 in total
\* and leave exactly one counter on it, with or without a counter at first.
C4_TwiceAddsTwo ==
    (Located /\ Len(rw.outs) = 2 /\ CountIf(LineBefore, IsCtr) <= 1)
        => LET j0 == FirstIdx(LineBefore, IsCtr)
               n0 == IF j0 = 0 THEN 0 ELSE LineBefore[j0].n
           IN  /\ CountIf(LineNow, IsCtr) = 1
               /\ LineNow[FirstIdx(LineNow, IsCtr)].n = n0 + 2

\* The identity of a target and of a line: the anchor without blanks and
\* without its caret (spec section 4.3).
TargetMatches(line) ==
    /\ extractTaskComponents(line).ok
    /\ extractTaskComponents(line).blockLink # EmptyStr
    /\ extractTaskComponents(line).blockLink.id = rw.target.id

NoLineMatches == \A i \in 1..Len(rw.doc0) : ~TargetMatches(rw.doc0[i])

\* C5: when no task line has the target identity the increment reports
\* not-found and the text is the text that was read.
C5_NotFoundWritesNothing ==
    (Incremented /\ NoLineMatches)
        => /\ \A i \in 1..Len(rw.outs) : rw.outs[i].outcome = "notfound"
           /\ rw.cur = rw.doc0

\* C6: a successful increment changes the located line and nothing else:
\* the same number of lines, every other line as it was read.
C6_OneLineChanges ==
    (Incremented /\ rw.outs[1].outcome = "written" /\ Len(rw.outs) = 1)
        => /\ Len(rw.cur) = Len(rw.doc0)
           /\ \A i \in 1..Len(rw.doc0) : i # LocatedNr + 1 => rw.cur[i] = rw.doc0[i]
           /\ rw.cur[LocatedNr + 1] # rw.doc0[LocatedNr + 1]

C6_Witness ==
    /\ Incremented /\ rw.outs[1].outcome = "written" /\ Len(rw.outs) = 1
    /\ LocatedNr = 0 /\ rw.cur[2] = rw.doc0[2] /\ rw.cur[1] # rw.doc0[1]

\* C7: a target held as " ^id", "^id" or "id" is found by the increment on
\* the task line whose anchor is id, and sync accepts the freshly resolved
\* record of that line whether its anchor reads " ^id" or "^id".
C7_AnchorFormsMatch ==
    /\ (Incremented /\ ~NoLineMatches) => rw.outs[1].outcome # "notfound"
    /\ (rw.op = "sync" /\ Len(rw.outs) = 1 /\ rw.outs[1].fresh.blockLink # EmptyStr
            /\ rw.outs[1].fresh.blockLink.id = rw.target.id)
        => rw.outs[1].after.actual = rw.outs[1].fresh.actual

\* C8: the identity of the record of a line is the same before and after
\* the session increment of that line, for every counter spelling.
C8_IdentityStable ==
    (rw.op = "update" /\ Len(rw.outs) = 1)
        => identityOf(SubjectRecord(rw.cur, rw.subj, "query"))
               = identityOf(rw.outs[1].before)

SpecResolveInit == RsInit /\ rw = NoRw /\ MachineOff

SpecResolveNext ==
    \/ LoadFileTasksV1
    \/ ChangedV1
    \/ LoadFileTasksP1
    \/ ChangedP1

SpecResolve == SpecResolveInit /\ [][SpecResolveNext]_vars

----------------------------------------------------------------------------
(* Properties of the resolver *)

Published == rs.phase = "on" /\ rs.loads >= 1

\* C9: of a direct-scan record and an external record with the same
\* identity, the published list holds one record, the direct-scan one.
C9_DirectScanWins ==
    Published =>
        /\ \A i \in 1..Len(RsDirect) : \E j \in 1..Len(rs.store) : rs.store[j] = RsDirect[i]
        /\ \A i, j \in 1..Len(rs.store) :
              (rs.store[i].source = "direct" /\ rs.store[j].source = "query")
                  => identityOf(rs.store[i]) # identityOf(rs.store[j])

\* C10: no two records of a published list have the same identity.
C10_NoSharedIdentity ==
    Published =>
        \A i, j \in 1..Len(rs.store) :
            i # j => identityOf(rs.store[i]) # identityOf(rs.store[j])

----------------------------------------------------------------------------
(* The tracker machine: one tracked document, the held task, the published *)
(* list, the 'changed' events under way and the asynchronous operations    *)
(* between their file read and the landing of their file write.            *)

MaxSessions == 2     \* completed work sessions
MaxPicks == 2        \* task selections
MaxEdits == 1        \* edits of the document by the user

IdN == <<"n", "7">>                 \* an identifier createBlockId draws
IdM == <<"m", "8">>
NewIds == {IdN, IdM}

MachineDocs ==
    { <<subject, <<Box(" "), Word("Call"), Word("bob"), Anchor(IdB)>> >> :
        subject \in { <<Box(" "), Word("Write"), Word("report")>>,
                      <<Box(" "), Word("Write"), Word("report"), Anchor(IdA)>>,
                      <<Box(" "), Word("Write"), Word("report"),
                        Ctr("dc", 1, NoExp), Anchor(IdA)>> } }

\* Tasks.getTasksFromDataview, src/src/Tasks.ts 1288-1388, when the query
\* succeeds: one converted record per task line of the tracked document.
RECURSIVE tasksFromDataview(_, _)
tasksFromDataview(content, i) ==
    IF i > Len(content) THEN <<>>
    ELSE (IF content[i] # <<>> /\ content[i][1].k = "box"
          THEN <<convertToTaskItem(Tail(content[i]), DocPath, i - 1)>> ELSE <<>>)
         \o tasksFromDataview(content, i + 1)

\* Tasks.loadFileTasks: src/src/Tasks.ts 143-186 (build "v1", no queried
\* tasks) and 1276-1286 (build "v3").
loadFileTasks(build, content) ==
    IF build = "v1" THEN resolveTasks(DocPath, content, IndexOf(content))
    ELSE tasksFromDataview(content, 1)

\* Array.find on the list, 0 when no element fits.
FindIdx(tasks, P(_)) == FirstIdx(tasks, P)

\* Tasks.findTaskByMultipleIdentifiers, src/src/Tasks.ts 1124-1174: the index
\* of the record found for the held task, 0 when none.
findTaskByMultipleIdentifiers(held, tasks) ==
    LET ByLink(item) == item.blockLink # EmptyStr
                        /\ normalizeBlockId(item.blockLink) = normalizeBlockId(held.blockLink)
        ByDesc(item) == normalizeTaskText(item.description) = normalizeTaskText(held.description)
        ByLine(item) == item.line = held.line
        b == IF held.blockLink # EmptyStr THEN FindIdx(tasks, ByLink) ELSE 0
        d == IF held.description # <<>> THEN FindIdx(tasks, ByDesc) ELSE 0
    IN  IF b # 0 THEN b ELSE IF d # 0 THEN d ELSE FindIdx(tasks, ByLine)

\* The sync at the end of the 'changed' handler of build "v1",
\* src/src/Tasks.ts 124-135: the new held task.
syncActiveV1(held, tasks) ==
    IF held = NoTask \/ held.blockLink = EmptyStr THEN held
    ELSE LET Same(item) == item.blockLink # EmptyStr /\ item.blockLink = held.blockLink
             j == FindIdx(tasks, Same)
         IN  IF j = 0 THEN held ELSE syncTask(held, tasks[j])

\* Tasks.syncActiveTask and syncActiveTaskWithTasks of build "v3",
\* src/src/Tasks.ts 1021-1119, for a list that is not empty.
syncActiveV3(held, tasks) ==
    IF held = NoTask \/ tasks = <<>> THEN held
    ELSE LET j == findTaskByMultipleIdentifiers(held, tasks)
         IN  IF j = 0 THEN held
             ELSE LET currentCount == tasks[j].actual
                      newCount == currentCount + 1
                  IN  syncTask(held, updateTaskWithPomodoroCount(tasks[j], newCount))

\* line.endsWith(blockLink) of TaskTracker.ensureBlockId, line 114.
EndsWithLink(line, blockLink) ==
    /\ line # <<>>
    /\ line[Len(line)].k = "anchor"
    /\ line[Len(line)].id = blockLink.id
    /\ (blockLink.pre = <<" ", "^">> => Len(line) > 1)

\* lines[task.line] += blockLink, lines 116 and 123: " ^id" adds an anchor,
\* a link without the blank is glued to the last word.
AppendLink(line, blockLink) ==
    IF blockLink.pre = <<" ", "^">> THEN Append(line, Anchor(blockLink.id))
    ELSE Append(line, Tok("glued", "^", 0, NoExp, blockLink.id))

MachineInit ==
    \E build \in {"v1", "v3"}, enableTaskTracking \in BOOLEAN, d \in MachineDocs :
        /\ doc = d
        /\ tracker = [task |-> NoTask, pinned |-> FALSE]
        /\ list = loadFileTasks(build, d)
        /\ events = <<>>
        /\ ops = EmptyBag
        /\ hist = [build |-> build, enableTaskTracking |-> enableTaskTracking,
                   doc0 |-> d, sessions |-> 0, picks |-> 0, edits |-> 0,
                   counted |-> [l \in 1..Len(d) |-> 0], appended |-> {}, taken |-> 0]

\* The operations under way are a bag: two of them can be alike.
Start(op) == SetToBag({op})
Pending == BagToSet(ops)

\* A click on a task of the list: TaskTracker.active up to its
\* "await vault.read" in ensureBlockId (src/src/TaskTracker.ts 87-110).
Select ==
    /\ hist.build # "off" /\ hist.picks < MaxPicks
    /\ \E i \in 1..Len(list) :
        ops' = ops (+) Start([kind |-> "ensure", task |-> list[i], detached |-> FALSE])
    /\ hist' = [hist EXCEPT !.picks = @ + 1]
    /\ UNCHANGED <<rw, rs, doc, tracker, list, events>>

\* The rest of TaskTracker.active: ensureBlockId from the text read to the
\* vault.modify it does not await (lines 110-127), then state.task = task.
EnsureResume ==
    \E op \in Pending, blockId \in NewIds :
        /\ op.kind = "ensure"
        /\ LET task == op.task
               lines == doc
               inRange == Len(lines) > task.line
               line == lines[task.line + 1]
               mismatch == inRange /\ task.blockLink # EmptyStr
                           /\ ~EndsWithLink(line, task.blockLink)
               generate == inRange /\ task.blockLink = EmptyStr
               link == IF generate THEN SpCaret(blockId) ELSE task.blockLink
               writes == mismatch \/ generate
               newTask == [task EXCEPT !.blockLink = link]
           IN  /\ (~generate => blockId = IdN)
               /\ ops' = (ops (-) Start(op)) (+)
                         (IF writes
                          THEN Start([kind |-> "write", reload |-> FALSE,
                                      content |-> WriteLine(lines, task.line,
                                                            AppendLink(line, link))])
                          ELSE EmptyBag)
               /\ tracker' = IF op.detached THEN tracker
                             ELSE [tracker EXCEPT !.task = newTask]
               /\ hist' = [hist EXCEPT
                             !.taken = IF op.detached THEN @ ELSE @ + 1,
                             !.appended = IF writes THEN @ \cup {<<task.line, link.id>>}
                                          ELSE @]
        /\ UNCHANGED <<rw, rs, doc, list, events>>

\* The end of a work session: Timer.processLog (src/src/Timer.ts 210-213)
\* calls TaskTracker.updateActual (src/src/TaskTracker.ts 189-214), which runs
\* up to the "await vault.read" of incrTaskActual.
FinishSession ==
    /\ hist.build # "off" /\ hist.sessions < MaxSessions
    /\ LET held == tracker.task
           tracked == hist.enableTaskTracking /\ held # NoTask /\ held.blockLink # EmptyStr
       IN  IF tracked
           THEN /\ tracker' = [tracker EXCEPT !.task.actual =
                                   IF held.actual >= 0 THEN held.actual + 1 ELSE 1]
                /\ ops' = ops (+) Start([kind |-> "incr", blockLink |-> held.blockLink])
                /\ hist' = [hist EXCEPT !.sessions = @ + 1,
                                        !.counted[held.line + 1] = @ + 1]
           ELSE /\ hist' = [hist EXCEPT !.sessions = @ + 1]
                /\ UNCHANGED <<tracker, ops>>
    /\ UNCHANGED <<rw, rs, doc, list, events>>

\* TaskTracker.incrTaskActual from the text read to its vault.modify
\* (src/src/TaskTracker.ts 222-357).
IncrResume ==
    \E op \in Pending :
        /\ op.kind = "incr"
        /\ LET out == incrTaskActualTT(doc, IndexOf(doc), op.blockLink)
           IN  ops' = (ops (-) Start(op)) (+)
                      (IF out.outcome = "written"
                       THEN Start([kind |-> "write", reload |-> TRUE, content |-> out.lines])
                       ELSE EmptyBag)
        /\ UNCHANGED <<rw, rs, doc, tracker, list, events, hist>>

\* A vault.modify lands: the document takes the text it was called with and
\* the indexer announces the change.  After the write of incrTaskActual its
\* timer of lines 362-423 is set.
WriteLand ==
    \E op \in Pending :
        /\ op.kind = "write"
        /\ doc' = op.content
        /\ events' = Append(events, op.content)
        /\ ops' = (ops (-) Start(op)) (+)
                  (IF op.reload THEN Start([kind |-> "reload"]) ELSE EmptyBag)
        /\ UNCHANGED <<rw, rs, tracker, list, hist>>

\* The operations of a tracker that was unloaded: their file writes go on,
\* their store updates reach nobody.
Detached(o) == IF o.kind = "ensure" THEN [o EXCEPT !.detached = TRUE] ELSE o

Detach(B) ==
    LET old == BagToSet(B)
        Attached(x) == [x EXCEPT !.detached = FALSE]
    IN  [x \in {Detached(o) : o \in old} |->
            (IF x \in old THEN B[x] ELSE 0)
            + (IF x.kind = "ensure" /\ Attached(x) \in old THEN B[Attached(x)] ELSE 0)]

\* The timer of src/src/TaskTracker.ts 362-423.  Where the host has
\* disablePlugin and enablePlugin the plugin is built anew: no held task, the
\* list loaded again; callbacks of the old tracker keep running detached.
PluginReload ==
    \E op \in Pending, hasApi \in BOOLEAN :
        /\ op.kind = "reload"
        /\ IF hasApi
           THEN /\ tracker' = [task |-> NoTask, pinned |-> FALSE]
                /\ list' = loadFileTasks(hist.build, doc)
                /\ ops' = Detach(ops (-) Start(op))
           ELSE /\ ops' = ops (-) Start(op)
                /\ UNCHANGED <<tracker, list>>
        /\ UNCHANGED <<rw, rs, doc, events, hist>>

\* The 'changed' handler for the tracked file: src/src/Tasks.ts 82-141
\* (build "v1") and 1000-1119 (build "v3").
DeliverChanged ==
    /\ events # <<>>
    /\ LET content == Head(events)
           tasks == resolveTasks(DocPath, content, IndexOf(content))
       IN  /\ list' = tasks
           /\ tracker' = [tracker EXCEPT !.task =
                             IF hist.build = "v1" THEN syncActiveV1(tracker.task, tasks)
                             ELSE syncActiveV3(tracker.task, tasks)]
    /\ events' = Tail(events)
    /\ UNCHANGED <<rw, rs, doc, ops, hist>>

\* The user ticks or unticks the last task of the document in the editor.
UserEdit ==
    /\ hist.build # "off" /\ hist.edits < MaxEdits
    /\ LET n == Len(doc)
           newText == [doc EXCEPT ![n][1].s = IF @ = " " THEN "x" ELSE " "]
       IN  /\ doc' = newText
           /\ events' = Append(events, newText)
    /\ hist' = [hist EXCEPT !.edits = @ + 1]
    /\ UNCHANGED <<rw, rs, tracker, list, ops>>

\* TaskTracker.clear, src/src/TaskTracker.ts 136-141.
Clear ==
    /\ tracker.task # NoTask
    /\ tracker' = [tracker EXCEPT !.task = NoTask]
    /\ UNCHANGED <<rw, rs, doc, list, events, ops, hist>>

Init == MachineInit /\ rw = NoRw /\ rs = NoRs

Next ==
    \/ Select
    \/ EnsureResume
    \/ FinishSession
    \/ IncrResume
    \/ WriteLand
    \/ PluginReload
    \/ DeliverChanged
    \/ UserEdit
    \/ Clear

Spec == Init /\ [][Next]_vars

----------------------------------------------------------------------------
(* Properties of the tracker machine *)

\* Work sessions that ended with a task held and tracking enabled.
Counted == hist.counted[1] + hist.counted[2]

\* C1: while the selection stays on one task, every step changes the held
\* sessionsActual by the number of work sessions completed in that step:
\* +1 for a completed session, 0 for any other event, never less.
C1_HeldCountFollowsSessions ==
    [][ (/\ tracker.task # NoTask
         /\ tracker'.task # NoTask
         /\ hist'.taken = hist.taken)
        => tracker'.task.actual - tracker.task.actual = Counted' - Counted ]_vars

Quiescent == hist.build # "off" /\ ops = EmptyBag /\ events = <<>>

CounterOf(line) ==
    LET c == FirstIdx(line, IsCtr) IN IF c = 0 THEN 0 ELSE line[c].n

HasLink(line, id) ==
    \E j \in 1..Len(line) : line[j].k \in {"anchor", "glued"} /\ line[j].id = id

\* C2: the read-modify-write sequences on the document are serialized: when
\* all of them have finished, the counter of each line has risen by the
\* number of sessions completed on it and every appended anchor is there.
C2_UpdatesSerialized ==
    Quiescent =>
        /\ \A l \in 1..Len(doc) :
              CounterOf(doc[l]) = CounterOf(hist.doc0[l]) + hist.counted[l]
        /\ \A a \in hist.appended : HasLink(doc[a[1] + 1], a[2])

\* C11: the tracker enters Selected (state.task is set by active) with a
\* held record whose block anchor is not empty and is already on the task's
\* line of the document: the write that appends it has completed.
C11_AnchorWrittenBeforeSelected ==
    [][ (hist'.taken = hist.taken + 1)
        => /\ tracker'.task # NoTask
           /\ tracker'.task.blockLink # EmptyStr
           /\ HasLink(doc'[tracker'.task.line + 1], tracker'.task.blockLink.id) ]_vars

\* C12: sync with a freshly resolved record of the same identity (the same
\* anchor identifier) replaces
\* every field of the held record by the fresh value, except the display
\* name, which stays the one held.
C12_SyncKeepsName ==
    (/\ rw.op = "sync" /\ Len(rw.outs) = 1
     /\ rw.outs[1].fresh.blockLink # EmptyStr
     /\ rw.outs[1].fresh.blockLink.id = rw.outs[1].held.blockLink.id)
        => rw.outs[1].after = [rw.outs[1].fresh EXCEPT !.name = rw.outs[1].held.name]

\* C14: when a resolution pass of the document is delivered after a work
\* session was completed on the held task, the held sessionsActual becomes
\* the counter the pass read on the task's line.
C14_HeldCountReconciled ==
    [][ (/\ DeliverChanged
         /\ tracker.task # NoTask
         /\ tracker.task.blockLink # EmptyStr
         /\ hist.counted[tracker.task.line + 1] > 0)
        => \A j \in 1..Len(list') :
              (list'[j].blockLink # EmptyStr
               /\ list'[j].blockLink.id = tracker.task.blockLink.id)
                  => tracker'.task.actual = list'[j].actual ]_vars

----------------------------------------------------------------------------
(* Navigation: the active-leaf-change handler and togglePinned of the      *)
(* tracker, src/src/TaskTracker.ts and src/unnamed/part_002.  Here the     *)
(* tracker state carries its file as well.                                 *)

MaxLeafChanges == 2      \* active-leaf-change events
MaxToggles == 2          \* togglePinned calls

NoFile == ""             \* getActiveFile() is null: the leaf shows no file

NavFiles == {DocPath, OtherPath}

\* The tasks a tracker can hold: none, or a record of one of the documents.
NavTasks ==
    {NoTask}
    \cup {resolveItem(DocPath, d, 0) : d \in MachineDocs}
    \cup {resolveItem(OtherPath, <<l>>, 0) : l \in ForeignLines}

NavInit ==
    \E impl \in {"TT", "P2"}, file \in NavFiles \cup {NoFile}, task \in NavTasks,
       pinned \in BOOLEAN :
        /\ (task # NoTask => file # NoFile)
        /\ tracker = [task |-> task, pinned |-> pinned, file |-> file]
        /\ hist = [build |-> "nav", impl |-> impl, leaf |-> 0, toggles |-> 0, to |-> NoFile]
        /\ doc = <<>> /\ list = <<>> /\ events = <<>> /\ ops = EmptyBag

\* state.file = file ?? state.file
FileOr(file, old) == IF file # NoFile THEN file ELSE old

\* src/src/TaskTracker.ts 47-61
LeafChangeTT ==
    /\ hist.build = "nav" /\ hist.impl = "TT" /\ hist.leaf < MaxLeafChanges
    /\ \E file \in NavFiles \cup {NoFile} :
        /\ tracker' = IF ~tracker.pinned
                      THEN [tracker EXCEPT
                              !.task = IF tracker.file # file THEN NoTask ELSE @,
                              !.file = FileOr(file, @)]
                      ELSE tracker
        /\ hist' = [hist EXCEPT !.leaf = @ + 1, !.to = file]
    /\ UNCHANGED <<rw, rs, doc, list, events, ops>>

\* src/unnamed/part_002 47-60
LeafChangeP2 ==
    /\ hist.build = "nav" /\ hist.impl = "P2" /\ hist.leaf < MaxLeafChanges
    /\ \E file \in NavFiles \cup {NoFile} :
        /\ tracker' = IF ~tracker.pinned
                      THEN [tracker EXCEPT !.file = FileOr(file, @)]
                      ELSE tracker
        /\ hist' = [hist EXCEPT !.leaf = @ + 1, !.to = file]
    /\ UNCHANGED <<rw, rs, doc, list, events, ops>>

\* TaskTracker.togglePinned, src/src/TaskTracker.ts 80-85
TogglePinned ==
    /\ hist.build = "nav" /\ hist.toggles < MaxToggles
    /\ tracker' = [tracker EXCEPT !.pinned = ~@]
    /\ hist' = [hist EXCEPT !.toggles = @ + 1]
    /\ UNCHANGED <<rw, rs, doc, list, events, ops>>

SpecNavInit == NavInit /\ rw = NoRw /\ rs = NoRs

SpecNavNext ==
    \/ LeafChangeTT
    \/ LeafChangeP2
    \/ TogglePinned

SpecNav == SpecNavInit /\ [][SpecNavNext]_vars

\* C13: an active-leaf-change to a different document clears the selection
\* when the tracker is not pinned; while it is pinned an active-leaf-change
\* changes neither the selection nor the tracked file.
C13_LeafChangeAndPinned ==
    [][ (hist'.leaf = hist.leaf + 1)
        => /\ (~tracker.pinned /\ hist'.to # NoFile /\ hist'.to # tracker.file)
                 => tracker'.task = NoTask
           /\ tracker.pinned
                 => (tracker'.task = tracker.task /\ tracker'.file = tracker.file) ]_vars

----------------------------------------------------------------------------
(* Properties of the rewriter: insertion, location, unchanged lines *)

\* The trailing metadata of a line (spec section 4.1): the date sentinels,
\* tags and the block anchor that end the line.
IsTrailingMeta(t) == t.k \in {"date", "tag", "anchor"}

\* Position of the leftmost trailing metadata token, Len(line) + 1 for none.
TrailStart(line) ==
    CHOOSE j \in 1..(Len(line) + 1) :
        /\ \A i \in j..Len(line) : IsTrailingMeta(line[i])
        /\ j > 1 => ~IsTrailingMeta(line[j - 1])

\* C15: a located line without a counter reads after one increment as
\* before with "[T:: 1]" put in front of its leftmost trailing metadata token
\* (a date sentinel, a tag or the block anchor), or at its end when it has
\* none; nothing of the line is overwritten.
C15_InsertBeforeMetadata ==
    (Located /\ Len(rw.outs) = 1 /\ CountIf(LineBefore, IsCtr) = 0)
        => LineNow = InsertAt(LineBefore, TrailStart(LineBefore), Ctr("dc", 1, NoExp))

\* The record the tracker holds when it asks for an increment: the record of
\* the subject line, with the target as its anchor string.
HeldDescription == normalizeTaskText(resolveItem(DocPath, rw.doc0, rw.subj).description)

DescriptionMatches(i) ==
    /\ extractTaskComponents(rw.doc0[i]).ok
    /\ normalizeTaskText(resolveItem(DocPath, rw.doc0, i - 1).description) = HeldDescription

\* The 0-based line the precedence of spec section 4.3 selects: the first
\* line with the target's anchor, else the first task line with the held
\* description, else the held line number.
ExpectedLine ==
    IF \E i \in 1..Len(rw.doc0) : TargetMatches(rw.doc0[i])
    THEN (CHOOSE i \in 1..Len(rw.doc0) :
            TargetMatches(rw.doc0[i]) /\ \A k \in 1..(i - 1) : ~TargetMatches(rw.doc0[k])) - 1
    ELSE IF \E i \in 1..Len(rw.doc0) : DescriptionMatches(i)
    THEN (CHOOSE i \in 1..Len(rw.doc0) :
            DescriptionMatches(i) /\ \A k \in 1..(i - 1) : ~DescriptionMatches(k)) - 1
    ELSE rw.subj

\* C16: the increment locates the line by the block anchor first, then by
\* the normalized description, then by the line number, and takes the first
\* hit: a later method decides only when every earlier one found nothing.
C16_LocateByPrecedence ==
    (Incremented /\ Len(rw.outs) = 1)
        => /\ rw.outs[1].outcome \in {"written", "unchanged"}
           /\ rw.outs[1].lineNr = ExpectedLine

\* The line incrTaskActual computes for a line it located.
ComputedLine(line) ==
    IF rw.op = "incrP2" THEN RewriteLineP2(line)
    ELSE RewriteLineTT(line, extractTaskComponents(line))

FirstComputedSame ==
    /\ rw.op \in {"incrTT", "incrP2", "incrP3"} /\ Len(rw.outs) >= 1
    /\ rw.outs[1].lineNr \in 0..(Len(rw.doc0) - 1)
    /\ ComputedLine(rw.doc0[rw.outs[1].lineNr + 1]) = rw.doc0[rw.outs[1].lineNr + 1]

\* C17: when the line the increment computes is the line it read, no call
\* writes the document and none sets off a re-index, a task reload or a
\* plugin refresh; the text stays the text that was read.
C17_SameLineWritesNothing ==
    FirstComputedSame
        => /\ \A k \in 1..Len(rw.outs) : rw.outs[k].triggered = {}
           /\ rw.cur = rw.doc0

C17_Witness ==
    /\ rw.op \in {"incrTT", "incrP3"} /\ Len(rw.outs) = MaxApply
    /\ FirstComputedSame
    /\ \E j \in 1..Len(rw.doc0[rw.outs[1].lineNr + 1]) :
            rw.doc0[rw.outs[1].lineNr + 1][j] = Field("soon")
    /\ rw.outs[1].outcome = "unchanged" /\ rw.outs[1].triggered = {}

----------------------------------------------------------------------------
(* Task loading with an external engine, step by step: the Dataview load   *)
(* of src/src/Tasks.ts 583-685 ("v2", the same as 1276-1378), the Tasks    *)
(* plugin load of src/src/Tasks.ts 143-372 ("v1") and of                   *)
(* src/unnamed/part_001 143-610 ("p1") with its wait for rendered tasks.   *)

DataviewAttempts == 3     \* for (let attempt = 0; attempt < 3; attempt++)
RenderAttempts == 5       \* for (let attempt = 0; attempt < 5; attempt++)

LoadInit ==
    \E impl \in {"v1", "v2", "p1"}, plugin \in BOOLEAN, query \in BOOLEAN,
       fence \in BOOLEAN, l1 \in TrackedLines,
       ext \in {<<>>, <<ExtTask(OtherPath, 0, FALSE)>>} :
        /\ impl # "v2" => query
        /\ l1[Len(l1)].k = "anchor"
        /\ rs = [phase |-> "load", impl |-> impl, plugin |-> plugin, query |-> query,
                 docA |-> (IF fence THEN <<Fence>> ELSE <<>>) \o <<l1>>,
                 docB |-> <<CHOOSE lb \in ForeignLines : lb[Len(lb)] = Anchor(IdC)>>,
                 ext |-> ext, status |-> "idle", attempt |-> 0, plan |-> <<>>,
                 saw |-> {}, store |-> <<>>, loads |-> 0]

LoadRest == UNCHANGED <<rw, doc, tracker, list, events, ops, hist>>

\* The store update that ends a load.
LoadPublish(published, seen) ==
    rs' = [rs EXCEPT !.store = published, !.status = "published",
                     !.saw = @ \cup seen, !.plan = <<>>]

\* A loop that tries again without counting the attempt.
SameAttempt(attempt) == attempt

\* The loop counter after an attempt that did not return.
NextAttempt(attempt) == attempt + 1

\* What the engine does at each attempt of one load.  The attempt that ends
\* the loop is the last one that counts: the entries behind it are padding.
EnginePlans(impl) ==
    IF impl = "v2"
    THEN {p \in [1..DataviewAttempts -> {"indexing", "throws", "unsuccessful", "ok"}] :
            \A i, j \in 1..DataviewAttempts : (i < j /\ p[i] = "ok") => p[j] = "ok"}
    ELSE IF impl = "p1"
    THEN {p \in [1..RenderAttempts -> {"rendered", "nothing", "throws"}] :
            \A i, j \in 1..RenderAttempts : (i < j /\ p[i] # "nothing") => p[j] = "nothing"}
    ELSE [1..1 -> {"throws", "returns"}]

\* Tasks.loadFileTasks is called (file opened, plugin loaded).
LoadBegin ==
    /\ rs.phase = "load" /\ rs.status # "running" /\ rs.status # "fetching"
    /\ rs.loads < MaxLoads
    /\ \E plan \in EnginePlans(rs.impl) :
        rs' = [rs EXCEPT !.status = "running", !.attempt = 0, !.plan = plan,
                         !.saw = {}, !.loads = @ + 1]
    /\ LoadRest

\* src/src/Tasks.ts 596-621: no query configured or no Dataview API: null,
\* and loadFileTasks stores the empty list (line 591).
DataviewUnavailable ==
    /\ rs.phase = "load" /\ rs.impl = "v2" /\ rs.status = "running"
    /\ ~rs.query \/ ~rs.plugin
    /\ LoadPublish(<<>>, {"missing"})
    /\ LoadRest

\* src/src/Tasks.ts 624-680: one turn of the loop.  The index is still being
\* built, the query throws, it returns an unsuccessful result, or it
\* succeeds.  The error of the third attempt is thrown again (line 678) and
\* nothing in loadFileTasks catches it.
DataviewAttempt ==
    /\ rs.phase = "load" /\ rs.impl = "v2" /\ rs.status = "running"
    /\ rs.query /\ rs.plugin /\ rs.attempt < DataviewAttempts
    /\ LET b == rs.plan[rs.attempt + 1]
       IN
        IF b = "ok"
        THEN LoadPublish(tasksFromDataview(rs.docA, 1), {b})
        ELSE IF b = "throws" /\ rs.attempt = DataviewAttempts - 1
        THEN rs' = [rs EXCEPT !.status = "rejected", !.saw = @ \cup {b}, !.plan = <<>>]
        ELSE rs' = [rs EXCEPT !.attempt = NextAttempt(@), !.saw = @ \cup {b}]
    /\ LoadRest

\* src/src/Tasks.ts 682 and 591: the loop is over, null, the empty list.
DataviewGiveUp ==
    /\ rs.phase = "load" /\ rs.impl = "v2" /\ rs.status = "running"
    /\ rs.query /\ rs.plugin /\ rs.attempt >= DataviewAttempts
    /\ LoadPublish(<<>>, {})
    /\ LoadRest

\* src/src/Tasks.ts 143-372: the direct scan, then loadQueriedTasks, whose
\* try block turns an error of the engine into the empty list.
LoadQueriedV1 ==
    /\ rs.phase = "load" /\ rs.impl = "v1" /\ rs.status = "running"
    /\ LET b == rs.plan[1]
       IN
        IF ~rs.plugin
        THEN LoadPublish(mergeTasks(RsDirect, <<>>), {"missing"})
        ELSE IF b = "throws" /\ HasQueryBlock(rs.docA)
        THEN LoadPublish(mergeTasks(RsDirect, <<>>), {"throws"})
        ELSE LoadPublish(mergeTasks(RsDirect,
                                    loadQueriedTasksV1(rs.docA, rs.docB, rs.plugin, rs.ext)),
                         IF HasQueryBlock(rs.docA)
                         THEN {IF rs.ext = <<>> THEN "nothing" ELSE "ok"} ELSE {})
    /\ LoadRest

\* src/unnamed/part_001 143-236: without the Tasks plugin, or without a
\* query block in the document, the direct scan is the list.
LoadDirectP1 ==
    /\ rs.phase = "load" /\ rs.impl = "p1" /\ rs.status = "running"
    /\ ~rs.plugin \/ ~HasQueryBlock(rs.docA)
    /\ LoadPublish(mergeTasks(RsDirect, <<>>), IF rs.plugin THEN {} ELSE {"missing"})
    /\ LoadRest

\* src/unnamed/part_001 239-284: one turn of waitForTasksToRender.  The
\* engine has tasks, or it has none yet and the loop waits, or it throws and
\* the catch of loadQueriedTasks (lines 604-610) returns the empty list.
WaitForTasksToRender ==
    /\ rs.phase = "load" /\ rs.impl = "p1" /\ rs.status = "running"
    /\ rs.plugin /\ HasQueryBlock(rs.docA) /\ rs.attempt < RenderAttempts
    /\ LET b == rs.plan[rs.attempt + 1]
       IN
        IF b = "rendered" /\ rs.ext # <<>>
        THEN rs' = [rs EXCEPT !.status = "fetching"]
        ELSE IF b = "throws"
        THEN LoadPublish(mergeTasks(RsDirect, <<>>), {b})
        ELSE rs' = [rs EXCEPT !.attempt = NextAttempt(@), !.saw = @ \cup {"nothing"},
                              !.status = IF NextAttempt(rs.attempt) >= RenderAttempts
                                         THEN "fetching" ELSE @]
    /\ LoadRest

\* src/unnamed/part_001 286-610: after the wait the tasks are fetched and
\* converted; an engine that returned nothing during the whole wait may
\* still return nothing.
FetchQueriedP1 ==
    /\ rs.phase = "load" /\ rs.impl = "p1" /\ rs.status = "fetching"
    /\ \E allTasks \in {<<>>, rs.ext} :
        /\ (rs.attempt < RenderAttempts) => allTasks = rs.ext
        /\ LoadPublish(mergeTasks(RsDirect,
                                  loadQueriedTasksP1(rs.docA, rs.docB, rs.plugin,
                                                     allTasks, rs.store)),
                       {IF allTasks = <<>> THEN "nothing" ELSE "ok"})
    /\ LoadRest

SpecLoadInit == LoadInit /\ rw = NoRw /\ MachineOff

SpecLoadNext ==
    \/ LoadBegin
    \/ DataviewUnavailable
    \/ DataviewAttempt
    \/ DataviewGiveUp
    \/ LoadQueriedV1
    \/ LoadDirectP1
    \/ WaitForTasksToRender
    \/ FetchQueriedP1

SpecLoad == SpecLoadInit /\ [][SpecLoadNext]_vars

\* The steps of a load that is under way.
LoadStep ==
    \/ DataviewUnavailable
    \/ DataviewAttempt
    \/ DataviewGiveUp
    \/ LoadQueriedV1
    \/ LoadDirectP1
    \/ WaitForTasksToRender
    \/ FetchQueriedP1

\* Every engine call and every timer of a load under way returns.
SpecLoadFair == SpecLoad /\ WF_vars(LoadStep)

----------------------------------------------------------------------------
(* Properties of task loading *)

LoadEnded == rs.phase = "load" /\ rs.status \in {"published", "rejected"}

\* The engine was missing, or every call of it in this load threw or came
\* back unsuccessful.
EngineFailed == rs.saw # {} /\ rs.saw \subseteq {"missing", "throws", "unsuccessful"}

\* C18: a load whose external engine is missing, throws on every attempt or
\* returns an unsuccessful result ends without a rejection, and the list it
\* publishes is the direct scan of the document: every direct-scan record
\* and no external record.
C18_EngineFailureContained ==
    (LoadEnded /\ EngineFailed)
        => /\ rs.status = "published"
           /\ rs.store = RsDirect

\* The engine never finished indexing, or never returned a task, in any
\* attempt of this load.
EngineNeverReady == rs.saw # {} /\ rs.saw \subseteq {"indexing", "unsuccessful", "nothing"}

LoadRunning == rs.phase = "load" /\ rs.status \in {"running", "fetching"}

----------------------------------------------------------------------------
(* Writes against a document that changed after it was resolved: the task  *)
(* list and the structural index are those of an earlier text, the writes  *)
(* read the current text.                                                  *)

MaxStaleEdits == 2     \* edits of the document by the user in a run
MaxWrites == 2         \* activations and increments recorded in a run

\* TaskTracker.ensureBlockId, src/src/TaskTracker.ts 104-130, on the text it
\* read: whether it writes, the text it hands to vault.modify, the anchor
\* string of the task afterwards.
ensureBlockId(task, lines, blockId) ==
    LET inRange == Len(lines) > task.line
        line == lines[task.line + 1]
        mismatch == inRange /\ task.blockLink # EmptyStr
                    /\ ~EndsWithLink(line, task.blockLink)
        generate == inRange /\ task.blockLink = EmptyStr
        link == IF generate THEN blockId ELSE task.blockLink
    IN  [writes |-> mismatch \/ generate,
         lines |-> IF mismatch \/ generate
                   THEN WriteLine(lines, task.line, AppendLink(line, link))
                   ELSE lines,
         blockLink |-> link]

\* TaskTracker.createBlockId, src/src/TaskTracker.ts 132-134: a blank, a
\* caret and up to four base-36 digits of Math.random(): an identifier no
\* line has, one a line already has, or none at all (Math.random() = 0
\* prints as "0", which has no character at position 2).
createBlockId == {SpCaret(id) : id \in {IdN, IdB, <<>>}}

StaleInit ==
    \E build \in {"v1", "v3"}, d \in MachineDocs, note \in BOOLEAN :
        LET text == IF note THEN <<<<Word("Notes")>>>> \o d ELSE d
        IN  rw = [op |-> "stale", build |-> build, cur |-> text,
                  index |-> IndexOf(text), list |-> loadFileTasks(build, text),
                  edits |-> 0, fresh |-> TRUE, writes |-> <<>>]

StaleRest == UNCHANGED <<rs, doc, tracker, list, events, ops, hist>>

\* The user adds a line above the tasks, or removes the first line; the task
\* list and the index are still those of the text before.
StaleEdit ==
    /\ rw.op = "stale" /\ rw.edits < MaxStaleEdits
    /\ \E newText \in {<<<<Word("Todo")>>>> \o rw.cur,
                        IF rw.cur = <<>> THEN <<>> ELSE Tail(rw.cur)} :
        rw' = [rw EXCEPT !.cur = newText, !.edits = @ + 1, !.fresh = FALSE]
    /\ StaleRest

\* The 'changed' handler ran: list and index are those of the current text.
StaleResolve ==
    /\ rw.op = "stale" /\ ~rw.fresh
    /\ rw' = [rw EXCEPT !.index = IndexOf(rw.cur),
                        !.list = loadFileTasks(rw.build, rw.cur), !.fresh = TRUE]
    /\ StaleRest

\* TaskTracker.active of a task of the list: ensureBlockId reads the current
\* text and writes at task.line.
StaleActivate ==
    /\ rw.op = "stale" /\ Len(rw.writes) < MaxWrites
    /\ \E i \in 1..Len(rw.list), blockId \in createBlockId :
        LET task == rw.list[i]
            e == ensureBlockId(task, rw.cur, blockId)
        IN  /\ e.writes
            /\ rw' = [rw EXCEPT !.cur = e.lines, !.fresh = FALSE,
                                !.writes = Append(@, [kind |-> "anchor", task |-> task,
                                                      lineNr |-> task.line,
                                                      link |-> e.blockLink,
                                                      was |-> rw.cur[task.line + 1]])]
    /\ StaleRest

\* TaskTracker.incrTaskActual for a task of the list: the current text, the
\* index the metadata cache holds.
StaleIncrement ==
    /\ rw.op = "stale" /\ Len(rw.writes) < MaxWrites
    /\ \E i \in 1..Len(rw.list) :
        LET task == rw.list[i]
            out == incrTaskActualTT(rw.cur, rw.index, task.blockLink)
        IN  /\ task.blockLink # EmptyStr
            /\ out.outcome = "written"
            /\ rw' = [rw EXCEPT !.cur = out.lines, !.fresh = FALSE,
                                !.writes = Append(@, [kind |-> "counter", task |-> task,
                                                      lineNr |-> out.lineNr,
                                                      link |-> task.blockLink,
                                                      was |-> rw.cur[out.lineNr + 1]])]
    /\ StaleRest

SpecStaleInit == StaleInit /\ rs = NoRs /\ MachineOff

SpecStaleNext ==
    \/ StaleEdit
    \/ StaleResolve
    \/ StaleActivate
    \/ StaleIncrement

SpecStale == SpecStaleInit /\ [][SpecStaleNext]_vars

\* The line holds the task: it is a task line with the task's anchor, or,
\* for a task without anchor, with the task's description.
HoldsTask(line, task) ==
    /\ extractTaskComponents(line).ok
    /\ IF task.blockLink # EmptyStr
       THEN /\ extractTaskComponents(line).blockLink # EmptyStr
            /\ extractTaskComponents(line).blockLink.id = task.blockLink.id
       ELSE normalizeTaskText(deserialize(extractTaskComponents(line).body).description)
                = normalizeTaskText(task.description)

\* C20: every write for a task, the anchor appended on activation and the
\* counter rewritten on session completion, changes a line that holds that
\* task in the text read for the write, also when the list and the index
\* were computed from an earlier text.
C20_WritesLandOnTaskLine ==
    rw.op = "stale"
        => \A k \in 1..Len(rw.writes) : HoldsTask(rw.writes[k].was, rw.writes[k].task)

----------------------------------------------------------------------------
(* Task loads in flight while the tracked document changes: the loads of   *)
(* src/src/Tasks.ts 82-186 (file subscription, 'changed' handler,          *)
(* loadFileTasks, loadQueriedTasks) and the refresh after a write of       *)
(* src/unnamed/part_003 331-360.                                           *)

MaxSwitches == 2       \* changes of the tracked document
MaxChanges == 1        \* 'changed' events of the metadata cache
MaxRefreshes == 1      \* session increments followed by a refresh

SwitchContent(path) ==
    IF path = DocPath THEN hist.docA ELSE hist.docB

\* The tasks the Tasks plugin returns: one task of B.md.
SwitchEngine == <<ExtTask(OtherPath, 0, FALSE)>>

\* resolveTasks of a file, as loadFileTasks and the 'changed' handler call it.
SwitchDirect(path) ==
    resolveTasks(path, SwitchContent(path), IndexOf(SwitchContent(path)))

\* loadQueriedTasks(file) with the Tasks plugin installed (lines 191-372).
SwitchQueried(path) ==
    IF HasQueryBlock(SwitchContent(path))
    THEN queriedLoopV1(SwitchEngine, hist.docA, hist.docB)
    ELSE <<>>

\* The list a load of the file publishes when nothing else is in flight.
ResolvedFor(path) ==
    IF hist.include THEN mergeTasks(SwitchDirect(path), SwitchQueried(path))
    ELSE SwitchDirect(path)

SwitchInit ==
    \E include \in BOOLEAN, refresh \in BOOLEAN, fence \in BOOLEAN,
       d \in MachineDocs, file \in NavFiles :
        /\ hist = [build |-> "switch", include |-> include, refresh |-> refresh,
                   docA |-> (IF fence THEN <<Fence>> ELSE <<>>) \o d,
                   docB |-> <<CHOOSE lb \in ForeignLines : lb[Len(lb)] = Anchor(IdC)>>,
                   switches |-> 0, changes |-> 0, refreshes |-> 0]
        /\ tracker = [task |-> NoTask, pinned |-> FALSE, file |-> file]
        /\ ops = Start([kind |-> "read", file |-> file])
        /\ list = <<>> /\ doc = <<>> /\ events = <<>>

\* active-leaf-change to another file (src/src/TaskTracker.ts 47-61, not
\* pinned): the task is cleared, the file is set, and the subscription of
\* Tasks (src/src/Tasks.ts 62-73) calls loadFileTasks(file).
SwitchLeaf ==
    /\ hist.build = "switch" /\ hist.switches < MaxSwitches
    /\ \E file \in NavFiles \ {tracker.file} :
        /\ tracker' = [tracker EXCEPT !.task = NoTask, !.file = file]
        /\ ops' = ops (+) Start([kind |-> "read", file |-> file])
    /\ hist' = [hist EXCEPT !.switches = @ + 1]
    /\ UNCHANGED <<rw, rs, doc, list, events>>

\* cachedRead(file).then of loadFileTasks (lines 145-172): the direct scan,
\* then the store update or the call of loadQueriedTasks.
SwitchReadDone ==
    /\ hist.build = "switch"
    /\ \E op \in Pending :
        /\ op.kind = "read"
        /\ IF hist.include
           THEN /\ ops' = (ops (-) Start(op)) (+) Start([kind |-> "query", file |-> op.file])
                /\ list' = list
           ELSE /\ ops' = ops (-) Start(op)
                /\ list' = SwitchDirect(op.file)
    /\ UNCHANGED <<rw, rs, doc, tracker, events, hist>>

\* loadQueriedTasks(file).then (lines 101-105 and 159-167): the store takes
\* the tasks of the file the load was started for.
SwitchQueryDone ==
    /\ hist.build = "switch"
    /\ \E op \in Pending :
        /\ op.kind = "query"
        /\ ops' = ops (-) Start(op)
        /\ list' = mergeTasks(SwitchDirect(op.file), SwitchQueried(op.file))
    /\ UNCHANGED <<rw, rs, doc, tracker, events, hist>>

\* metadataCache 'changed' for a file (lines 82-141): ignored unless it is
\* the tracked file.
SwitchChanged ==
    /\ hist.build = "switch" /\ hist.changes < MaxChanges
    /\ \E file \in NavFiles :
        IF file # tracker.file
        THEN UNCHANGED <<list, ops>>
        ELSE IF hist.include
        THEN /\ ops' = ops (+) Start([kind |-> "query", file |-> file])
             /\ list' = list
        ELSE /\ list' = SwitchDirect(file)
             /\ ops' = ops
    /\ hist' = [hist EXCEPT !.changes = @ + 1]
    /\ UNCHANGED <<rw, rs, doc, tracker, events>>

\* TaskTracker.active of a task of the list that has an anchor.
SwitchActivate ==
    /\ hist.build = "switch" /\ tracker.task = NoTask
    /\ \E i \in 1..Len(list) :
        /\ list[i].blockLink # EmptyStr
        /\ tracker' = [tracker EXCEPT !.task = list[i]]
    /\ UNCHANGED <<rw, rs, doc, list, events, ops, hist>>

\* src/unnamed/part_003 331-360: after the write of a session increment the
\* tracker calls tasks.loadFileTasks for the file of the task.
SwitchRefresh ==
    /\ hist.build = "switch" /\ hist.refresh /\ hist.refreshes < MaxRefreshes
    /\ tracker.task # NoTask
    /\ ops' = ops (+) Start([kind |-> "read", file |-> tracker.task.path])
    /\ hist' = [hist EXCEPT !.refreshes = @ + 1]
    /\ UNCHANGED <<rw, rs, doc, tracker, list, events>>

SpecSwitchInit == SwitchInit /\ rw = NoRw /\ rs = NoRs

SpecSwitchNext ==
    \/ SwitchLeaf
    \/ SwitchReadDone
    \/ SwitchQueryDone
    \/ SwitchChanged
    \/ SwitchActivate
    \/ SwitchRefresh

SpecSwitch == SpecSwitchInit /\ [][SpecSwitchNext]_vars

\* C21: once every load, query continuation and refresh in flight has
\* settled, the published list is the list resolved for the document that
\* is tracked now, whatever documents the completions were started for.
C21_ListOfTrackedDocument ==
    (hist.build = "switch" /\ ops = EmptyBag) => list = ResolvedFor(tracker.file)

----------------------------------------------------------------------------
(* Properties of the anchors in a document *)

\* The block anchor of a line: the identifier of its last token when that
\* is an anchor, <<>> for a line without one.
BlockAnchorOf(line) ==
    IF line # <<>> /\ line[Len(line)].k \in {"anchor", "glued"}
    THEN <<line[Len(line)].id>> ELSE <<>>

AnchorsUnique(lines) ==
    \A i, j \in 1..Len(lines) :
        (i # j /\ BlockAnchorOf(lines[i]) # <<>>)
            => BlockAnchorOf(lines[i]) # BlockAnchorOf(lines[j])

\* C22: after any sequence of activations and session increments no two
\* lines of the document carry the same block anchor, and every anchor an
\* activation synthesized has a non-empty identifier.
C22_AnchorsUniqueAndNonEmpty ==
    rw.op = "stale"
        => /\ AnchorsUnique(rw.cur)
           /\ \A k \in 1..Len(rw.writes) :
                (rw.writes[k].kind = "anchor" /\ rw.writes[k].task.blockLink = EmptyStr)
                    => rw.writes[k].link.id # <<>>

----------------------------------------------------------------------------
(* Record objects shared by the task list store and the tracker.  The list *)
(* store holds objects; the tracker holds none, one of the list's objects  *)
(* (the same object) or an object of its own.                              *)

MaxAliasSteps == 3     \* operations of the tracker in a run

NoHeld == [kind |-> "none"]
SameAs(i) == [kind |-> "same", i |-> i]        \* the i-th object of the list
OwnObject(r) == [kind |-> "own", obj |-> r]

\* The record the tracker holds.
HeldRecord ==
    IF rw.held.kind = "same" THEN rw.objs[rw.held.i]
    ELSE IF rw.held.kind = "own" THEN rw.held.obj
    ELSE NoTask

\* An assignment to a field of state.task: it changes the object, wherever
\* else that object is held.
AssignHeld(new) ==
    IF rw.held.kind = "same"
    THEN [rw EXCEPT !.objs[rw.held.i] = new]
    ELSE [rw EXCEPT !.held = OwnObject(new)]

AliasInit ==
    \E d \in MachineDocs :
        rw = [op |-> "alias", cur |-> d,
              objs |-> resolveTasks(DocPath, d, IndexOf(d)),
              published |-> resolveTasks(DocPath, d, IndexOf(d)),
              held |-> NoHeld, steps |-> 0, acted |-> {}]

AliasRest == UNCHANGED <<rs, doc, tracker, list, events, ops, hist>>

\* The task list view hands a record of the list store to
\* TaskTracker.active (src/src/TaskTracker.ts 86-130): ensureBlockId assigns
\* task.blockLink (line 121), then state.task = task (line 89).
AliasActive ==
    /\ rw.op = "alias" /\ rw.steps < MaxAliasSteps
    /\ \E i \in 1..Len(rw.objs), blockId \in createBlockId :
        LET task == rw.objs[i]
            e == ensureBlockId(task, rw.cur, blockId)
        IN  rw' = [rw EXCEPT !.objs[i].blockLink = e.blockLink,
                             !.cur = e.lines,
                             !.held = SameAs(i),
                             !.steps = @ + 1, !.acted = @ \cup {"active"}]
    /\ AliasRest

\* TaskTracker.setTaskName, lines 95-102: state.task.name = name
AliasSetTaskName ==
    /\ rw.op = "alias" /\ rw.steps < MaxAliasSteps /\ rw.held # NoHeld
    /\ rw' = [AssignHeld([HeldRecord EXCEPT !.name = <<Word("renamed")>>])
                EXCEPT !.steps = @ + 1, !.acted = @ \cup {"setTaskName"}]
    /\ AliasRest

\* TaskTracker.updateActual, lines 189-214, with task tracking enabled:
\* state.task.actual += 1, then the increment of the document.
AliasUpdateActual ==
    /\ rw.op = "alias" /\ rw.steps < MaxAliasSteps /\ rw.held # NoHeld
    /\ HeldRecord.blockLink # EmptyStr
    /\ LET a == HeldRecord.actual
           out == incrTaskActualTT(rw.cur, IndexOf(rw.cur), HeldRecord.blockLink)
       IN  rw' = [AssignHeld([HeldRecord EXCEPT !.actual = IF a >= 0 THEN a + 1 ELSE 1])
                    EXCEPT !.cur = IF out.outcome = "written" THEN out.lines ELSE @,
                           !.steps = @ + 1, !.acted = @ \cup {"updateActual"}]
    /\ AliasRest

\* The 'changed' handler, src/src/Tasks.ts 82-141: state.list takes the new
\* records; the object the tracker held stays the tracker's, and
\* TaskTracker.sync (src/src/TaskTracker.ts 174-187) replaces it by a copy
\* of the new record with the same anchor string.
AliasChanged ==
    /\ rw.op = "alias" /\ rw.steps < MaxAliasSteps
    /\ LET tasks == resolveTasks(DocPath, rw.cur, IndexOf(rw.cur))
           held == HeldRecord
           Fits(t) == t.blockLink # EmptyStr /\ held # NoTask
                      /\ t.blockLink = held.blockLink
           j == FirstIdx(tasks, Fits)
       IN  rw' = [rw EXCEPT !.objs = tasks, !.published = tasks,
                            !.held = IF held = NoTask THEN NoHeld
                                     ELSE IF j # 0 THEN OwnObject(syncTask(held, tasks[j]))
                                     ELSE OwnObject(held),
                            !.steps = @ + 1]
    /\ AliasRest

SpecAliasInit == AliasInit /\ rs = NoRs /\ MachineOff

SpecAliasNext ==
    \/ AliasActive
    \/ AliasSetTaskName
    \/ AliasUpdateActual
    \/ AliasChanged

SpecAlias == SpecAliasInit /\ [][SpecAliasNext]_vars

\* C23: the record objects of the task list store are as they were
\* published, whatever active (ensureBlockId), setTaskName and updateActual
\* did since, and the tracker then holds an object of its own.
C23_ListRecordsNotMutated ==
    rw.op = "alias"
        => /\ rw.objs = rw.published
           /\ rw.held.kind # "same"

----------------------------------------------------------------------------
(* Order of the published list *)

DirectPart(s) == LET IsDirect(t) == t.source = "direct" IN SelectSeq(s, IsDirect)
QueryPart(s) == LET IsQuery(t) == t.source = "query" IN SelectSeq(s, IsQuery)

\* The positions in the engine's result of the task a record was built from.
EnginePositions(t) ==
    {k \in 1..Len(rs.ext) : rs.ext[k].path = t.path /\ rs.ext[k].line = t.line}

\* The records of s follow the order of the engine's result.
InEngineOrder(s) ==
    \E f \in [1..Len(s) -> 0..Len(rs.ext)] :
        /\ \A i \in 1..Len(s) : f[i] \in EnginePositions(s[i])
        /\ \A i, j \in 1..Len(s) : i < j => f[i] < f[j]

\* C24: a published list is its direct-scan records, in ascending line
\* order whatever the order of the list items of the structural index,
\* followed by external records in the order of the engine's result, none
\* of which has the identity of a direct-scan record.
C24_PublishedOrder ==
    Published =>
        LET d == DirectPart(rs.store)
            q == QueryPart(rs.store)
        IN  /\ rs.store = d \o q
            /\ d = resolveTasks(DocPath, rs.docA, IndexOf(rs.docA))
            /\ \A i, j \in 1..Len(d) : i < j => d[i].line < d[j].line
            /\ InEngineOrder(q)
            /\ \A i \in 1..Len(q), j \in 1..Len(d) :
                  identityOf(q[i]) # identityOf(d[j])

----------------------------------------------------------------------------
(* resolveTasks on degenerate inputs, src/src/Tasks.ts 387-399 *)

NullMetadata == [present |-> FALSE, listItems |-> <<>>]     \* getFileCache gave null
Metadata(listItems) == [present |-> TRUE, listItems |-> listItems]

Returned(tasks) == [threw |-> FALSE, tasks |-> tasks]
Thrown == [threw |-> TRUE, tasks |-> <<>>]

\* resolveTasks without the test of the metadata: metadata.listItems of null.
resolveOutcomeNoNullTest(path, content, metadata) ==
    IF ~metadata.present THEN Thrown
    ELSE IF IsEmptyContent(content) THEN Returned(<<>>)
    ELSE IF resolveThrows(content, metadata.listItems) THEN Thrown
    ELSE Returned(resolveTasks(path, content, metadata.listItems))

\* What a call of resolveTasks does: line 393 first, then the loop.
resolveOutcome(path, content, metadata) ==
    IF IsEmptyContent(content) \/ ~metadata.present THEN Returned(<<>>)
    ELSE IF resolveThrows(content, metadata.listItems) THEN Thrown
    ELSE Returned(resolveTasks(path, content, metadata.listItems))

DegenerateContents ==
    {<<>>, << <<>> >>}
        \cup {<<l1>> : l1 \in TrackedLines}
        \cup {<<l1, l2>> : l1 \in TrackedLines, l2 \in TrackedLines}

\* The metadata cache may lag behind the text: any index of these documents.
DegenerateMetadata ==
    {NullMetadata} \cup {Metadata(IndexOf(c)) : c \in DegenerateContents}

DegenerateInit ==
    \E c \in DegenerateContents, m \in DegenerateMetadata :
        rs = [phase |-> "resolve", content |-> c, metadata |-> m, called |-> FALSE,
              out |-> Returned(<<>>), incr |-> "none"]

ResolveCall ==
    /\ rs.phase = "resolve" /\ ~rs.called
    /\ rs' = [rs EXCEPT !.called = TRUE,
                        !.out = resolveOutcome(DocPath, rs.content, rs.metadata)]
    /\ UNCHANGED <<rw, doc, tracker, list, events, ops, hist>>

\* TaskTracker.incrTaskActual of src/unnamed/part_002, lines 215-330, on the
\* same text and metadata: line 225 returns without metadata.
IncrementCall ==
    /\ rs.phase = "resolve" /\ rs.incr = "none"
    /\ \E blockLink \in {SpCaret(IdB), SpCaret(IdC)} :
        rs' = [rs EXCEPT !.incr =
                 IF ~rs.metadata.present THEN "notfound"
                 ELSE incrTaskActualP2(rs.content, rs.metadata.listItems, blockLink).outcome]
    /\ UNCHANGED <<rw, doc, tracker, list, events, ops, hist>>

SpecDegenerateInit == DegenerateInit /\ rw = NoRw /\ MachineOff

SpecDegenerateNext ==
    \/ ResolveCall
    \/ IncrementCall

SpecDegenerate == SpecDegenerateInit /\ [][SpecDegenerateNext]_vars

\* C25: resolveTasks returns the empty list, and does not throw, when the
\* content is empty or the document has no metadata.
C25_DegenerateInputsGiveEmptyList ==
    (rs.phase = "resolve" /\ rs.called
        /\ (IsEmptyContent(rs.content) \/ ~rs.metadata.present))
        => rs.out = Returned(<<>>)

\* Content with task lines and no metadata; no content with a stale index.
C25_Witness ==
    /\ rs.phase = "resolve" /\ rs.called
    /\ \/ ~rs.metadata.present /\ Len(rs.content) = 2
       \/ IsEmptyContent(rs.content) /\ Len(rs.metadata.listItems) = 2

----------------------------------------------------------------------------
(* Task tracking enabled and disabled *)

\* The step is the end of a work session.
SessionEnds == hist'.sessions # hist.sessions

\* C26: with task tracking enabled, once everything has finished, the
\* counter of every line has risen by the number of work sessions completed
\* while an anchored task of that line was held; with task tracking
\* disabled the end of a session changes neither the document nor the
\* tracker and starts nothing, and no counter of the document ever differs
\* from the one it started with.
C26_TrackingSettingObeyed ==
    /\ [](hist.build \in {"v1", "v3"} =>
            IF hist.enableTaskTracking
            THEN Quiescent =>
                    \A l \in 1..Len(doc) :
                        CounterOf(doc[l]) = CounterOf(hist.doc0[l]) + hist.counted[l]
            ELSE /\ \A l \in 1..Len(doc) : CounterOf(doc[l]) = CounterOf(hist.doc0[l])
                 /\ \A o \in Pending : o.kind \notin {"incr", "reload"})
    /\ [][ (hist.build \in {"v1", "v3"} /\ ~hist.enableTaskTracking /\ SessionEnds)
            => UNCHANGED <<doc, tracker, ops, events>> ]_vars

----------------------------------------------------------------------------
(* Activation of a task that has an anchor *)

\* C27: the activation of a task whose line carries a block anchor writes
\* nothing: every write of ensureBlockId is for a task without anchor.
C27_AnchoredTaskNotRewritten ==
    rw.op = "stale" =>
        \A k \in 1..Len(rw.writes) :
            rw.writes[k].kind = "anchor" => rw.writes[k].task.blockLink = EmptyStr

----------------------------------------------------------------------------
(* The timer, src/src/Timer.ts.  Times are counted in thousandths of a     *)
(* millisecond, the 0.001 that timeup writes into elapsed being one unit.  *)

MaxUserActs == 3      \* button presses and settings changes in a run
MaxTimeups == 2       \* countdowns that reach their end in a run
MaxStaleTicks == 1    \* clock messages that arrive while the timer is stopped

Epsilon == 1                                   \* 0.001 ms
toMillis(minutes) == minutes * 60 * 1000 * 1000
HalfMinute == 30 * 1000 * 1000

WorkLens == {1, 2}       \* minutes; the slider of Settings.ts 124 starts at 1
BreakLens == {0, 1}      \* minutes; the slider of Settings.ts 137 starts at 0
TickAmounts == {HalfMinute, toMillis(1)}
SavedModes == {"none", "WORK", "BREAK"}      \* localStorage 'pomodoro-timer-mode'

LenOf(s, mode) == IF mode = "WORK" THEN s.workLen ELSE s.breakLen

\* Timer constructor, lines 80-123.  hasTask, heldActual and pinned are the
\* tracker's: an anchored task held with task tracking enabled, its count.
TimerConstructed(settings, savedMode, hasTask, pinned) ==
    LET initialMode == IF savedMode = "BREAK" THEN "BREAK" ELSE "WORK"
    IN  [op |-> "timer",
         autostart |-> settings.autostart,
         workLen |-> settings.workLen,
         breakLen |-> settings.breakLen,
         running |-> FALSE,
         mode |-> initialMode,
         elapsed |-> 0,
         startTime |-> FALSE,
         inSession |-> FALSE,
         duration |-> IF initialMode = "WORK" THEN settings.workLen ELSE settings.breakLen,
         count |-> IF initialMode = "WORK" THEN toMillis(settings.workLen)
                   ELSE toMillis(settings.breakLen),
         settings |-> settings, saved |-> savedMode, timers |-> <<>>,
         hasTask |-> hasTask, heldActual |-> 0, pinned |-> pinned,
         awaiting |-> "none", touched |-> FALSE, acts |-> 0, timeups |-> 0,
         updates |-> 0, begun |-> 0, begunWork |-> 0, stale |-> 0, last |-> "constructor"]

\* Timer.start that begins a session whatever the state is.
startAlwaysNew(s) ==
    [s EXCEPT !.elapsed = 0,
              !.duration = LenOf(s, s.mode),
              !.count = toMillis(LenOf(s, s.mode)),
              !.startTime = TRUE,
              !.begun = @ + 1,
              !.begunWork = IF s.mode = "WORK" THEN @ + 1 ELSE @,
              !.inSession = TRUE, !.running = TRUE]

\* Timer.start, lines 218-236
start(s) ==
    LET n == IF ~s.inSession
             THEN [s EXCEPT !.elapsed = 0,
                            !.duration = LenOf(s, s.mode),
                            !.count = toMillis(LenOf(s, s.mode)),
                            !.startTime = TRUE,
                            !.begun = @ + 1,
                            !.begunWork = IF s.mode = "WORK" THEN @ + 1 ELSE @]
             ELSE s
    IN  [n EXCEPT !.inSession = TRUE, !.running = TRUE]

\* Timer.endSession that leaves startTime as it is.
endSessionKeepsStartTime(s) ==
    LET mode == IF s.breakLen = 0 THEN "WORK"
                ELSE IF s.mode = "WORK" THEN "BREAK" ELSE "WORK"
    IN  [s EXCEPT !.mode = mode, !.saved = mode,
                  !.duration = LenOf(s, mode),
                  !.count = toMillis(LenOf(s, mode)),
                  !.inSession = FALSE, !.running = FALSE, !.elapsed = 0]

\* Timer.endSession, lines 238-260
endSession(s) ==
    LET mode == IF s.breakLen = 0 THEN "WORK"
                ELSE IF s.mode = "WORK" THEN "BREAK" ELSE "WORK"
    IN  [s EXCEPT !.mode = mode, !.saved = mode,
                  !.duration = LenOf(s, mode),
                  !.count = toMillis(LenOf(s, mode)),
                  !.inSession = FALSE, !.running = FALSE,
                  !.startTime = FALSE, !.elapsed = 0]

\* TaskTracker.updateActual, src/src/TaskTracker.ts 189-214, up to its await.
updateActual(s) ==
    [s EXCEPT !.updates = @ + 1,
              !.heldActual = IF s.hasTask THEN @ + 1 ELSE @]

\* Timer.processLog that updates the count after every countdown.
processLogAnyMode(s) == updateActual(s)

\* Timer.processLog, lines 210-216, up to its first await; the context is
\* made of the state before endSession (lines 164-165).
processLog(s) == IF s.mode = "WORK" THEN updateActual(s) ELSE s

\* The setTimeout calls of Timer.timeup, lines 176-193, in the order of their
\* delays; without the one that starts the next session.
TimersOfTimeupNoStart(autostart) == <<"reset">>

TimersOfTimeup(autostart) ==
    IF autostart THEN <<"reset", "start">> ELSE <<"reset">>

\* Timer.timeup, lines 161-194
timeup(s) ==
    LET ended == endSession(processLog(s))
    IN  [ended EXCEPT !.elapsed = Epsilon,
                      !.timers = @ \o TimersOfTimeup(s.autostart),
                      !.awaiting = IF s.autostart THEN ended.mode ELSE "none",
                      !.touched = FALSE,
                      !.timeups = @ + 1]

\* Timer.tick that does not look at running.
tickIgnoringRunning(s, t) ==
    LET sum == s.elapsed + t
        e == [s EXCEPT !.elapsed = IF sum >= s.count THEN s.count ELSE sum]
    IN  IF e.elapsed >= e.count THEN timeup(e) ELSE e

\* Timer.tick, lines 141-159, with the timeup it calls.
tick(s, t) ==
    IF s.running
    THEN LET sum == s.elapsed + t
             e == [s EXCEPT !.elapsed = IF sum >= s.count THEN s.count ELSE sum]
         IN  IF e.elapsed >= e.count THEN timeup(e) ELSE e
    ELSE s

\* Timer.setupTimer that recomputes the countdown in every state.
setupTimerAlways(s) ==
    LET n == [s EXCEPT !.workLen = s.settings.workLen,
                       !.breakLen = s.settings.breakLen,
                       !.autostart = s.settings.autostart]
    IN  [n EXCEPT !.duration = LenOf(n, n.mode),
                  !.count = toMillis(LenOf(n, n.mode))]

\* Timer.setupTimer, lines 369-383
setupTimer(s) ==
    LET n == [s EXCEPT !.workLen = s.settings.workLen,
                       !.breakLen = s.settings.breakLen,
                       !.autostart = s.settings.autostart]
    IN  IF ~n.running /\ ~n.inSession
        THEN [n EXCEPT !.duration = LenOf(n, n.mode),
                       !.count = toMillis(LenOf(n, n.mode))]
        ELSE n

\* Timer.reset, lines 311-334, with the TaskTracker.clear it calls.
reset(s) ==
    [s EXCEPT !.duration = LenOf(s, s.mode),
              !.count = toMillis(LenOf(s, s.mode)),
              !.inSession = FALSE, !.running = FALSE,
              !.hasTask = IF s.pinned THEN @ ELSE FALSE,
              !.heldActual = IF s.pinned THEN @ ELSE 0,
              !.startTime = FALSE, !.elapsed = 0]

\* A step of the user while the start of the next session is due.
UserActed(s, what) ==
    [s EXCEPT !.acts = @ + 1, !.last = what,
              !.touched = @ \/ s.awaiting # "none"]

TimerInit ==
    \E workLen \in WorkLens, breakLen \in BreakLens, autostart \in BOOLEAN,
       savedMode \in SavedModes, hasTask \in BOOLEAN, pinned \in BOOLEAN :
        /\ pinned => hasTask
        /\ rw = TimerConstructed([workLen |-> workLen, breakLen |-> breakLen,
                                  autostart |-> autostart], savedMode, hasTask, pinned)

TimerRest == UNCHANGED <<rs, doc, tracker, list, events, ops, hist>>

\* A message of the clock reaches a running timer.  The amounts are far
\* above the delays of the timers of timeup: no such amount has passed while
\* one of them is due.
Tick ==
    /\ rw.op = "timer" /\ rw.running /\ rw.timers = <<>>
    /\ rw.timeups < MaxTimeups
    /\ \E t \in TickAmounts : rw' = [tick(rw, t) EXCEPT !.last = "tick"]
    /\ TimerRest

\* A message of the clock reaches a timer that is not running: one posted
\* before the clock was told to stop.
StaleTick ==
    /\ rw.op = "timer" /\ ~rw.running /\ rw.stale < MaxStaleTicks
    /\ rw.timeups < MaxTimeups
    /\ \E t \in TickAmounts :
        rw' = [tick(rw, t) EXCEPT !.stale = rw.stale + 1, !.last = "stale tick"]
    /\ TimerRest

\* A callback of setTimeout runs: lines 178-183 and 190-192.
TimerFire ==
    /\ rw.op = "timer" /\ rw.timers # <<>>
    /\ LET s == [rw EXCEPT !.timers = Tail(@)]
       IN  rw' = IF Head(rw.timers) = "reset"
                 THEN [s EXCEPT !.elapsed = 0, !.last = "reset timer"]
                 ELSE [start(s) EXCEPT !.awaiting = "none", !.last = "start"]
    /\ TimerRest

\* The user starts the timer (Timer.toggleTimer, lines 350-352).
UserStart ==
    /\ rw.op = "timer" /\ rw.acts < MaxUserActs /\ ~rw.running
    /\ rw' = UserActed(start(rw), "start")
    /\ TimerRest

\* Timer.pause, lines 300-309
UserPause ==
    /\ rw.op = "timer" /\ rw.acts < MaxUserActs /\ rw.running
    /\ rw' = UserActed([rw EXCEPT !.running = FALSE], "pause")
    /\ TimerRest

\* Timer.reset, lines 311-334
UserReset ==
    /\ rw.op = "timer" /\ rw.acts < MaxUserActs
    /\ rw' = UserActed(reset(rw), "reset")
    /\ TimerRest

\* Timer.toggleMode, lines 336-348
UserToggleMode ==
    /\ rw.op = "timer" /\ rw.acts < MaxUserActs
    /\ rw' = UserActed(endSession(rw), "toggleMode")
    /\ TimerRest

\* PomodoroSettings.updateSettings, src/src/Settings.ts 87-98, for the work
\* length, the break length or autostart; its subscriber (lines 75-80) calls
\* setupTimer.
ChangeSettings ==
    /\ rw.op = "timer" /\ rw.acts < MaxUserActs
    /\ \E workLen \in WorkLens, breakLen \in BreakLens, autostart \in BOOLEAN :
        LET new == [workLen |-> workLen, breakLen |-> breakLen, autostart |-> autostart]
        IN  /\ new # rw.settings
            /\ rw' = UserActed(setupTimer([rw EXCEPT !.settings = new]), "setupTimer")
    /\ TimerRest

SpecTimerInit == TimerInit /\ rs = NoRs /\ MachineOff

SpecTimerNext ==
    \/ Tick
    \/ StaleTick
    \/ TimerFire
    \/ UserStart
    \/ UserPause
    \/ UserReset
    \/ UserToggleMode
    \/ ChangeSettings

SpecTimer == SpecTimerInit /\ [][SpecTimerNext]_vars

\* setTimeout callbacks run once they are due.
SpecTimerFair == SpecTimer /\ WF_vars(TimerFire)

\* C28: a running timer whose break length is 0 is in mode WORK.
C28_NoBreakWhenDisabled ==
    (rw.op = "timer" /\ rw.breakLen = 0 /\ rw.running) => rw.mode = "WORK"

\* The timer runs the session that follows a countdown in mode m.
RestartedIn(m) ==
    /\ rw.running /\ rw.mode = m /\ rw.elapsed = 0
    /\ rw.count = toMillis(LenOf(rw, m))

\* C29: when a countdown has reached its end with autostart on and
\* endSession has chosen mode m, then, unless the user does something
\* first, the timer is eventually running in mode m with elapsed 0 and
\* count the length of m.
C29_AutostartRunsNextSession ==
    \A m \in {"WORK", "BREAK"} :
        (rw.op = "timer" /\ rw.awaiting = m /\ ~rw.touched)
            ~> (rw.touched \/ RestartedIn(m))

\* The session after the first countdown, started by the timer of timeup:
\* the one step of the user was the start of the first session.
C29_Witness ==
    /\ rw.op = "timer" /\ rw.timeups = 1 /\ rw.acts = 1
    /\ rw.awaiting = "none" /\ RestartedIn("BREAK")

----------------------------------------------------------------------------
(* The line an increment of src/unnamed/part_002 chooses *)

\* C30: the line rewritten by a session increment is a task line whose
\* anchor, without blanks and caret, is the target without blanks and caret:
\* not a line with a longer anchor that starts with the target, nor a line
\* with the text "^id" inside its description.
C30_RewrittenLineHasTargetAnchor ==
    (rw.op = "incrP2" /\ Len(rw.outs) >= 1 /\ rw.outs[1].outcome = "written")
        => TargetMatches(rw.doc0[rw.outs[1].lineNr + 1])

----------------------------------------------------------------------------
(* Repeated resolution *)

\* C31: a load that follows a load of the same text, the same index and the
\* same engine results publishes the list the first one published.
C31_ResolutionRepeatable ==
    [][ (rs.phase = "on" /\ rs.loads >= 1 /\ rs'.loads = rs.loads + 1)
            => rs'.store = rs.store ]_vars

----------------------------------------------------------------------------
(* Counters of a converted record *)

\* C32: the record converted from an externally supplied task has the n of
\* the bracket counter "[T:: n/m]" of its text as actual and its m as
\* expected, 0 for a missing m and 0 for both without a counter.
C32_ConvertedCountersFromText ==
    (rw.op = "update" /\ Len(rw.outs) = 1)
        => LET line == rw.doc0[rw.subj + 1]
               c == FirstIdx(line, IsDc)
               converted == rw.outs[1].before
           IN  /\ converted.source = "query"
               /\ converted.actual = IF c = 0 THEN 0 ELSE line[c].n
               /\ converted.expected = IF c = 0 \/ line[c].m = NoExp THEN 0 ELSE line[c].m

----------------------------------------------------------------------------
(* Totality of resolveTasks and of the session-count rewriter *)

\* C33: neither resolveTasks nor incrTaskActual throws, whatever the text
\* and the structural index are, an index with list items past the last
\* line of the text included.
C33_NoThrowOnAnyIndex ==
    rs.phase = "resolve"
        => /\ rs.called => ~rs.out.threw
           /\ rs.incr # "threw"

----------------------------------------------------------------------------
(* Active-leaf-change without a change of document *)

\* C34: an active-leaf-change whose active file is the tracked file, or that
\* reports no active file, leaves the held task as it is, pinned or not.
C34_SameFileKeepsSelection ==
    [][ (hist.build = "nav" /\ hist'.leaf = hist.leaf + 1
            /\ hist'.to \in {tracker.file, NoFile})
        => tracker'.task = tracker.task ]_vars

----------------------------------------------------------------------------
(* The timer and the session count *)

\* The step is the end of a countdown in mode WORK.
WorkTimeup == rw'.timeups # rw.timeups /\ rw.mode = "WORK"

C36_OneTimeupPerSession ==
    /\ [](rw.op = "timer"
            => /\ rw.timeups <= rw.begun
               /\ rw.updates <= rw.begunWork
               /\ (rw.running /\ rw.count > 0) => rw.elapsed < rw.count)
    /\ [][ (rw.op = "timer" /\ rw'.stale # rw.stale)
            => rw' = [rw EXCEPT !.stale = rw'.stale, !.last = rw'.last] ]_vars

\* A clock message after the end of the first WORK session.
C36_Witness ==
    /\ rw.op = "timer" /\ rw.last = "stale tick" /\ rw.timeups = 1
    /\ rw.begun = 1 /\ rw.updates = 1

\* C37: a running timer is in a session, and startTime is set exactly while
\* a session is in progress.
C37_RunningInSession ==
    rw.op = "timer"
        => /\ rw.running => rw.inSession
           /\ rw.startTime <=> rw.inSession

\* A paused session, and before it a session that ended.
C37_Witness ==
    /\ rw.op = "timer" /\ rw.timeups = 1 /\ rw.last = "pause"
    /\ rw.inSession /\ ~rw.running /\ rw.startTime

\* C38: start on a paused session sets running and leaves elapsed, count,
\* duration and startTime as they are; start without a session in progress
\* begins one with elapsed 0 and the count of the configured length of the
\* current mode.
C38_StartResumesOrBegins ==
    [][ (rw.op = "timer" /\ rw'.last = "start")
        => /\ rw'.running /\ rw'.inSession /\ rw'.mode = rw.mode
           /\ (rw.inSession /\ ~rw.running)
                 => /\ rw'.elapsed = rw.elapsed /\ rw'.count = rw.count
                    /\ rw'.duration = rw.duration /\ rw'.startTime = rw.startTime
           /\ ~rw.inSession
                 => /\ rw'.elapsed = 0 /\ rw'.startTime
                    /\ rw'.duration = LenOf(rw.settings, rw.mode)
                    /\ rw'.count = toMillis(LenOf(rw.settings, rw.mode)) ]_vars

\* A session resumed after a pause, with the time it had counted.
C38_Witness ==
    /\ rw.op = "timer" /\ rw.last = "start" /\ rw.running
    /\ rw.elapsed = HalfMinute /\ rw.begun = 1

\* C39: setupTimer during a session, running or paused, leaves the count
\* and the duration of that session as they are; the lengths of the state
\* are always those of the settings, and the next session that begins has
\* the length the settings then give its mode.
C39_SettingsApplyToNextSession ==
    /\ [](rw.op = "timer"
            => /\ rw.workLen = rw.settings.workLen
               /\ rw.breakLen = rw.settings.breakLen)
    /\ [][ rw.op = "timer"
            => /\ (rw'.last = "setupTimer" /\ rw.inSession)
                     => /\ rw'.count = rw.count /\ rw'.duration = rw.duration
                        /\ rw'.elapsed = rw.elapsed /\ rw'.inSession
                        /\ rw'.running = rw.running
               /\ (rw'.begun # rw.begun)
                     => /\ rw'.duration = LenOf(rw'.settings, rw'.mode)
                        /\ rw'.count = toMillis(rw'.duration) ]_vars

\* A session that goes on with the length it began with after the settings
\* gave its mode another length.
C39_Witness ==
    /\ rw.op = "timer" /\ rw.last = "setupTimer" /\ rw.inSession
    /\ rw.duration # LenOf(rw.settings, rw.mode)
    /\ rw.count = toMillis(rw.duration)

\* C40: sync never changes which task is selected.  In every 'changed'
\* step of the tracker: with nothing selected nothing is selected
\* afterwards; with a task selected the held record afterwards is a record
\* of the same line of the same document, with the same anchor and the same
\* name; and when no resolved record has the held anchor the held record is
\* as it was.
C40_SyncKeepsSelection ==
    [][ AliasChanged
        => /\ (rw.held = NoHeld => rw'.held = NoHeld)
           /\ (rw.held # NoHeld
                 => /\ rw'.held.kind = "own"
                    /\ rw'.held.obj.path = HeldRecord.path
                    /\ rw'.held.obj.line = HeldRecord.line
                    /\ rw'.held.obj.blockLink = HeldRecord.blockLink
                    /\ rw'.held.obj.name = HeldRecord.name
                    /\ (\A j \in 1..Len(rw'.published) :
                           rw'.published[j].blockLink # HeldRecord.blockLink)
                          => rw'.held.obj = HeldRecord) ]_vars

====
